---- MODULE Spec2Model ----
(***************************************************************************)
(* Runtime policy decision service (agent firewall).                       *)
(*                                                                         *)
(* The model follows the runtime-check edge function: the deterministic    *)
(* evaluator evaluateToolCall, and the request handler split at its        *)
(* database round trips, run by concurrent workers against the tables      *)
(* policies, execution_sessions, tool_call_logs and api_key_rate_limits.   *)
(* The policy editor page (save / publish) mutates the policies table.     *)
(***************************************************************************)
EXTENDS Integers, Sequences, FiniteSets, TLC

(***************************************************************************)
(* Bounds of the model: the requests started, the editor's saves and       *)
(* publishes, and the clock units that pass, for each specification.       *)
(*   Spec      two requests, one editor write, no time passing             *)
(*   SpecWide  two requests, two editor writes (a policy changed after a   *)
(*             session locked it), one clock unit                          *)
(*   SpecRate  three requests (one more than the rate limit), one editor   *)
(*             write, one clock unit                                       *)
(*   SpecEditor  the editor page alone: three editor writes                *)
(***************************************************************************)
MaxRequests == 2
MaxPolicyOps == 1
MaxTime == 0
MaxRequestsWide == 2
MaxPolicyOpsWide == 2
MaxTimeWide == 1
MaxRequestsRate == 3
MaxPolicyOpsRate == 1
MaxTimeRate == 1
MaxPolicyOpsEditor == 3

(***************************************************************************)
(* Program constants (scaled to the model's time unit and request count).  *)
(***************************************************************************)
RATE_LIMIT_REQUESTS_PER_MINUTE == 2
MAX_HISTORY_LENGTH == 2
WINDOW_MS == 1

(***************************************************************************)
(* Generic helpers for JS objects used as maps (Record<string, number>).   *)
(***************************************************************************)
EmptyMap == [k \in {} |-> 0]

Get(m, k, d) == IF k \in DOMAIN m THEN m[k] ELSE d

Put(m, k, v) == [x \in (DOMAIN m) \cup {k} |-> IF x = k THEN v ELSE m[x]]

Includes(seq, x) == \E i \in 1..Len(seq) : seq[i] = x

MinOf(S) == CHOOSE x \in S : \A y \in S : x <= y

(***************************************************************************)
(* JSON values of a payload: strings and objects; Undefined is the result  *)
(* of a failed property read.                                              *)
(***************************************************************************)
Undefined == [t |-> "undefined"]

JStr(s) == [t |-> "str", v |-> s]

JNum(n) == [t |-> "num", n |-> n]

JObj(f) == [t |-> "obj", f |-> f]

(* A dotted path is represented by the sequence path.split('.') yields. *)
RECURSIVE getJsonPathValue(_, _)
getJsonPathValue(current, parts) ==
    IF parts = <<>> THEN current
    ELSE IF current.t # "obj" THEN Undefined
    ELSE getJsonPathValue(
            IF Head(parts) \in DOMAIN current.f THEN current.f[Head(parts)] ELSE Undefined,
            Tail(parts))

(***************************************************************************)
(* Guards.  A guard string is represented by the outcome of matching it    *)
(* against /^(\w+)\s*(<=|<|>=|>|==|!=)\s*(\d+)$/ : ok is FALSE when the    *)
(* match fails, otherwise counter, op and value are the three groups.      *)
(***************************************************************************)
NoGuard == [present |-> FALSE, ok |-> FALSE, counter |-> "", op |-> "", value |-> 0]

Guard(c, op, v) == [present |-> TRUE, ok |-> TRUE, counter |-> c, op |-> op, value |-> v]

evaluateGuard(guard, counters) ==
    IF ~guard.ok THEN FALSE
    ELSE LET counterValue == Get(counters, guard.counter, 0)
             value == guard.value
         IN  CASE guard.op = "<=" -> counterValue <= value
               [] guard.op = "<"  -> counterValue < value
               [] guard.op = ">=" -> counterValue >= value
               [] guard.op = ">"  -> counterValue > value
               [] guard.op = "==" -> counterValue = value
               [] guard.op = "!=" -> counterValue # value
               [] OTHER -> FALSE

(***************************************************************************)
(* Policy documents.  Optional fields of the TypeScript interfaces are     *)
(* given a value that stands for "undefined":                              *)
(*   maxCallsPerSession, cooldownMs : NoNumber                             *)
(*   requireState, actionType      : "" (falsy in the source's tests)      *)
(*   the optional arrays           : << >>                                 *)
(***************************************************************************)
NoNumber == -1

Rule(name, effect) ==
    [toolName |-> name, effect |-> effect, actionType |-> "",
     maxCallsPerSession |-> NoNumber, cooldownMs |-> NoNumber,
     requireState |-> "", requirePreviousToolCalls |-> <<>>,
     requireFields |-> <<>>, denyIfFieldsPresent |-> <<>>,
     denyIfRegexMatch |-> <<>>, allowOnlyIfRegexMatch |-> <<>>]

Transition(from, to, tool) ==
    [fromState |-> from, toState |-> to, triggeredByTool |-> tool,
     requiresToolsCalledBefore |-> <<>>, setsCounters |-> EmptyMap, guard |-> NoGuard]

NoStateMachine == [present |-> FALSE, states |-> <<>>, initialState |-> "", transitions |-> <<>>]

StateMachine(states, init, transitions) ==
    [present |-> TRUE, states |-> states, initialState |-> init, transitions |-> transitions]

CounterDef(name, init, hasMax, max) ==
    [name |-> name, scope |-> "session", initialValue |-> init, hasMax |-> hasMax, maxValue |-> max]

(* A regex is represented by the set of strings it matches; valid is FALSE
   when new RegExp(pattern) throws. *)
Regex(valid, matches) == [valid |-> valid, matches |-> matches]

RegexConstraint(path, re) == [jsonPath |-> path, pattern |-> re]

(***************************************************************************)
(* evaluateToolCall: the ordered check sequence.  The mutable locals       *)
(* allowed, errorCode, reasons, newState and newCounters of the source are *)
(* threaded through the checks as one record.                              *)
(***************************************************************************)
NoError == ""

Fail(st, code) ==
    [st EXCEPT !.allowed = FALSE,
               !.errorCode = IF st.errorCode = NoError THEN code ELSE st.errorCode,
               !.reasons = Append(st.reasons, code)]

RECURSIVE FailTimes(_, _, _)
FailTimes(st, code, n) == IF n = 0 THEN st ELSE FailTimes(Fail(st, code), code, n - 1)

RECURSIVE InitCounters(_, _)
InitCounters(newCounters, defs) ==
    IF defs = <<>> THEN newCounters
    ELSE LET def == Head(defs)
         IN  InitCounters(IF def.name \in DOMAIN newCounters
                             THEN newCounters
                             ELSE Put(newCounters, def.name, def.initialValue),
                          Tail(defs))

RuleIndex(policy, toolName) ==
    LET S == {i \in 1..Len(policy.toolRules) : policy.toolRules[i].toolName = toolName}
    IN  IF S = {} THEN 0 ELSE MinOf(S)

Check4RequiredState(st, rule, currentState) ==
    IF rule.requireState # "" /\ rule.requireState # currentState
        THEN [st EXCEPT !.allowed = FALSE,
                        !.errorCode = "REQUIRED_STATE_NOT_MET",
                        !.reasons = Append(st.reasons, "REQUIRED_STATE_NOT_MET")]
        ELSE st

Check5RequiredTools(st, rule, previousToolsCalled) ==
    FailTimes(st, "REQUIRED_TOOLS_NOT_CALLED",
              Len(SelectSeq(rule.requirePreviousToolCalls,
                            LAMBDA req : ~Includes(previousToolsCalled, req))))

Check6MaxCalls(st, rule, toolName, toolCallCounts) ==
    IF rule.maxCallsPerSession # NoNumber
       /\ Get(toolCallCounts, toolName, 0) >= rule.maxCallsPerSession
        THEN Fail(st, "MAX_CALLS_EXCEEDED")
        ELSE st

(* Check 7 with the test elapsed <= rule.cooldownMs. *)
Check7CooldownInclusive(st, rule, toolName, lastToolCallTimes, timestamp) ==
    IF rule.cooldownMs # NoNumber
       /\ toolName \in DOMAIN lastToolCallTimes
       /\ timestamp - lastToolCallTimes[toolName] <= rule.cooldownMs
        THEN [Fail(st, "COOLDOWN_ACTIVE") EXCEPT
                 !.remainingMs = rule.cooldownMs - (timestamp - lastToolCallTimes[toolName])]
        ELSE st

(* remainingMs is the number of milliseconds the message of the reason reports. *)
Check7Cooldown(st, rule, toolName, lastToolCallTimes, timestamp) ==
    IF rule.cooldownMs # NoNumber
       /\ toolName \in DOMAIN lastToolCallTimes
       /\ timestamp - lastToolCallTimes[toolName] < rule.cooldownMs
        THEN [Fail(st, "COOLDOWN_ACTIVE") EXCEPT
                 !.remainingMs = rule.cooldownMs - (timestamp - lastToolCallTimes[toolName])]
        ELSE st

Check8RequiredFields(st, rule, payload) ==
    FailTimes(st, "REQUIRED_FIELD_MISSING",
              Len(SelectSeq(rule.requireFields,
                            LAMBDA field : getJsonPathValue(payload, field) = Undefined)))

Check9ForbiddenFields(st, rule, payload) ==
    FailTimes(st, "FORBIDDEN_FIELD_PRESENT",
              Len(SelectSeq(rule.denyIfFieldsPresent,
                            LAMBDA field : getJsonPathValue(payload, field) # Undefined)))

DenyRegexHits(c, payload) ==
    LET val == getJsonPathValue(payload, c.jsonPath)
    IN  /\ val.t = "str"
        /\ c.pattern.valid
        /\ val.v \in c.pattern.matches

Check10DenyRegex(st, rule, payload) ==
    FailTimes(st, "REGEX_MATCH_DENIED",
              Len(SelectSeq(rule.denyIfRegexMatch, LAMBDA c : DenyRegexHits(c, payload))))

AllowRegexMisses(c, payload) ==
    LET val == getJsonPathValue(payload, c.jsonPath)
    IN  IF val.t # "str" THEN TRUE
        ELSE c.pattern.valid /\ val.v \notin c.pattern.matches

Check11AllowOnlyRegex(st, rule, payload) ==
    FailTimes(st, "REGEX_MATCH_REQUIRED",
              Len(SelectSeq(rule.allowOnlyIfRegexMatch, LAMBDA c : AllowRegexMisses(c, payload))))

TransitionIndex(policy, toolName, currentState) ==
    LET ts == policy.stateMachine.transitions
        S == {i \in 1..Len(ts) : ts[i].triggeredByTool = toolName /\ ts[i].fromState = currentState}
    IN  IF S = {} THEN 0 ELSE MinOf(S)

ApplySetsCounters(newCounters, setsCounters) ==
    [name \in (DOMAIN newCounters) \cup (DOMAIN setsCounters) |->
        IF name \in DOMAIN setsCounters
            THEN Get(newCounters, name, 0) + setsCounters[name]
            ELSE newCounters[name]]

Check12StateMachine(st, policy, toolName, currentState, previousToolsCalled) ==
    IF ~(st.allowed /\ policy.stateMachine.present) THEN st
    ELSE LET ti == TransitionIndex(policy, toolName, currentState)
         IN  IF ti = 0 THEN st
             ELSE LET transition == policy.stateMachine.transitions[ti]
                      st1 == FailTimes(st, "REQUIRED_TOOLS_NOT_CALLED",
                                 Len(SelectSeq(transition.requiresToolsCalledBefore,
                                               LAMBDA req : ~Includes(previousToolsCalled, req))))
                      st2 == IF transition.guard.present /\ st1.allowed
                                /\ ~evaluateGuard(transition.guard, st1.newCounters)
                                THEN Fail(st1, "GUARD_CONDITION_FAILED")
                                ELSE st1
                  IN  IF st2.allowed
                         THEN [st2 EXCEPT !.newState = transition.toState,
                                          !.reasons = Append(st2.reasons, "STATE_TRANSITION"),
                                          !.newCounters = ApplySetsCounters(st2.newCounters,
                                                                            transition.setsCounters)]
                         ELSE st2

Check13CounterLimits(st, policy) ==
    FailTimes(st, "COUNTER_LIMIT_EXCEEDED",
              Len(SelectSeq(policy.counters,
                            LAMBDA def : def.hasMax /\ st.newCounters[def.name] > def.maxValue)))

Finalize(st, toolName, toolCallCounts) ==
    [allowed |-> st.allowed,
     errorCode |-> st.errorCode,
     reasons |-> IF st.allowed /\ st.reasons = <<>> THEN <<"ALLOWED">> ELSE st.reasons,
     newState |-> st.newState,
     newCounters |-> st.newCounters,
     newToolCallCounts |-> IF st.allowed
                              THEN Put(toolCallCounts, toolName, Get(toolCallCounts, toolName, 0) + 1)
                              ELSE toolCallCounts,
     remainingMs |-> st.remainingMs]

evaluateToolCall(policy, toolName, actionType, payload, currentState, previousToolsCalled, counters, toolCallCounts, lastToolCallTimes, timestamp) ==
    LET st0 == [allowed |-> TRUE, errorCode |-> NoError, reasons |-> <<>>,
                newState |-> currentState,
                newCounters |-> InitCounters(counters, policy.counters),
                remainingMs |-> NoNumber]
        early(st) == [allowed |-> st.allowed, errorCode |-> st.errorCode, reasons |-> st.reasons,
                      newState |-> st.newState, newCounters |-> st.newCounters,
                      newToolCallCounts |-> toolCallCounts, remainingMs |-> st.remainingMs]
        ri == RuleIndex(policy, toolName)
    IN  IF ri = 0
           THEN IF policy.defaultDecision = "deny"
                   THEN early(Fail(st0, "UNKNOWN_TOOL_DENIED"))
                   ELSE early(st0)
        ELSE LET rule == policy.toolRules[ri]
                 effectiveActionType == IF actionType # "" THEN actionType ELSE rule.actionType
             IN  IF rule.effect = "deny"
                    THEN early(Fail(st0, "TOOL_EXPLICITLY_DENIED"))
                 ELSE IF effectiveActionType \in {"side_effect", "write"} /\ rule.effect # "allow"
                    THEN early(Fail(st0, "SIDE_EFFECT_NOT_ALLOWED"))
                 ELSE LET st4 == Check4RequiredState(st0, rule, currentState)
                          st5 == Check5RequiredTools(st4, rule, previousToolsCalled)
                          st6 == Check6MaxCalls(st5, rule, toolName, toolCallCounts)
                          st7 == Check7Cooldown(st6, rule, toolName, lastToolCallTimes, timestamp)
                          st8 == Check8RequiredFields(st7, rule, payload)
                          st9 == Check9ForbiddenFields(st8, rule, payload)
                          st10 == Check10DenyRegex(st9, rule, payload)
                          st11 == Check11AllowOnlyRegex(st10, rule, payload)
                          st12 == Check12StateMachine(st11, policy, toolName, currentState,
                                                      previousToolsCalled)
                          st13 == Check13CounterLimits(st12, policy)
                      IN  Finalize(st13, toolName, toolCallCounts)

(***************************************************************************)
(* simulateToolCall of the policy-engine library: the evaluator behind the *)
(* editor's simulation panel.  Checks 2 to 11 are those of evaluateToolCall;*)
(* it has no check 13 and marks allowed outcomes with codes of its own.    *)
(***************************************************************************)
SimulateCheck12StateMachine(st, policy, toolName, currentState, previousToolsCalled) ==
    IF ~(st.allowed /\ policy.stateMachine.present) THEN st
    ELSE LET ti == TransitionIndex(policy, toolName, currentState)
         IN  IF ti = 0 THEN st
             ELSE LET transition == policy.stateMachine.transitions[ti]
                      st1 == FailTimes(st, "REQUIRED_TOOLS_NOT_CALLED",
                                 Len(SelectSeq(transition.requiresToolsCalledBefore,
                                               LAMBDA req : ~Includes(previousToolsCalled, req))))
                      st2 == IF transition.guard.present /\ st1.allowed
                                /\ ~evaluateGuard(transition.guard, st1.newCounters)
                                THEN Fail(st1, "GUARD_CONDITION_FAILED")
                                ELSE st1
                  IN  IF st2.allowed
                         THEN [st2 EXCEPT !.newState = transition.toState,
                                          !.reasons = Append(st2.reasons, "STATE_VIOLATION"),
                                          !.newCounters = ApplySetsCounters(st2.newCounters,
                                                                            transition.setsCounters)]
                         ELSE st2

SimulateFinalize(st, toolName, toolCallCounts) ==
    [allowed |-> st.allowed,
     errorCode |-> st.errorCode,
     reasons |-> IF st.allowed /\ st.reasons = <<>> THEN <<"UNKNOWN_TOOL_DENIED">> ELSE st.reasons,
     newState |-> st.newState,
     newCounters |-> st.newCounters,
     newToolCallCounts |-> IF st.allowed
                              THEN Put(toolCallCounts, toolName, Get(toolCallCounts, toolName, 0) + 1)
                              ELSE toolCallCounts,
     remainingMs |-> st.remainingMs]

simulateToolCall(input) ==
    LET policy == input.policy
        toolName == input.toolName
        st0 == [allowed |-> TRUE, errorCode |-> NoError, reasons |-> <<>>,
                newState |-> input.currentState,
                newCounters |-> InitCounters(input.counters, policy.counters),
                remainingMs |-> NoNumber]
        early(st) == [allowed |-> st.allowed, errorCode |-> st.errorCode, reasons |-> st.reasons,
                      newState |-> st.newState, newCounters |-> st.newCounters,
                      newToolCallCounts |-> input.toolCallCounts,
                      remainingMs |-> st.remainingMs]
        ri == RuleIndex(policy, toolName)
    IN  IF ri = 0
           THEN IF policy.defaultDecision = "deny"
                   THEN early(Fail(st0, "UNKNOWN_TOOL_DENIED"))
                   ELSE early([st0 EXCEPT !.reasons = Append(@, "UNKNOWN_TOOL_DENIED")])
        ELSE LET rule == policy.toolRules[ri]
                 effectiveActionType == IF input.actionType # "" THEN input.actionType
                                                                 ELSE rule.actionType
             IN  IF rule.effect = "deny"
                    THEN early(Fail(st0, "TOOL_EXPLICITLY_DENIED"))
                 ELSE IF effectiveActionType \in {"side_effect", "write"} /\ rule.effect # "allow"
                    THEN early(Fail(st0, "SIDE_EFFECT_NOT_ALLOWED"))
                 ELSE LET st4 == Check4RequiredState(st0, rule, input.currentState)
                          st5 == Check5RequiredTools(st4, rule, input.previousToolsCalled)
                          st6 == Check6MaxCalls(st5, rule, toolName, input.toolCallCounts)
                          st7 == Check7Cooldown(st6, rule, toolName, input.lastToolCallTimes,
                                                input.timestamp)
                          st8 == Check8RequiredFields(st7, rule, input.payload)
                          st9 == Check9ForbiddenFields(st8, rule, input.payload)
                          st10 == Check10DenyRegex(st9, rule, input.payload)
                          st11 == Check11AllowOnlyRegex(st10, rule, input.payload)
                          st12 == SimulateCheck12StateMachine(st11, policy, toolName,
                                                              input.currentState,
                                                              input.previousToolsCalled)
                      IN  SimulateFinalize(st12, toolName, input.toolCallCounts)

(***************************************************************************)
(* The policy validator of the policy-engine library.  Each operator is    *)
(* TRUE when the function of the same name pushes no error.                *)
(***************************************************************************)
SeqToSet(seq) == {seq[i] : i \in DOMAIN seq}

validateGuardExpression(guard, counterNames) ==
    guard.ok /\ guard.counter \in counterNames

ValidToolRule(rules, i, stateMachine) ==
    LET rule == rules[i]
    IN  /\ rule.toolName # ""
        /\ \A j \in 1..(i - 1) : rules[j].toolName # rule.toolName
        /\ rule.effect \in {"allow", "deny"}
        /\ rule.actionType \in {"", "read", "write", "side_effect"}
        /\ rule.maxCallsPerSession = NoNumber \/ rule.maxCallsPerSession >= 0
        /\ rule.cooldownMs = NoNumber \/ rule.cooldownMs >= 0
        /\ (rule.requireState # "" /\ stateMachine.present)
              => rule.requireState \in SeqToSet(stateMachine.states)
        /\ \A j \in DOMAIN rule.denyIfRegexMatch : rule.denyIfRegexMatch[j].pattern.valid
        /\ \A j \in DOMAIN rule.allowOnlyIfRegexMatch : rule.allowOnlyIfRegexMatch[j].pattern.valid

validateToolRules(rules, stateMachine) ==
    \A i \in DOMAIN rules : ValidToolRule(rules, i, stateMachine)

ValidTransition(t, stateNames, counterNames) ==
    /\ t.fromState # "" /\ t.fromState \in stateNames
    /\ t.toState # "" /\ t.toState \in stateNames
    /\ t.triggeredByTool # ""
    /\ DOMAIN t.setsCounters \subseteq counterNames
    /\ t.guard.present => validateGuardExpression(t.guard, counterNames)
    /\ ~(t.fromState = t.toState /\ ~t.guard.present)

validateStateMachine(sm, toolRules, counterNames) ==
    LET stateNames == SeqToSet(sm.states)
    IN  /\ sm.states # <<>>
        /\ Cardinality(stateNames) = Len(sm.states)
        /\ sm.initialState # "" /\ sm.initialState \in stateNames
        /\ \A i \in DOMAIN sm.transitions :
               ValidTransition(sm.transitions[i], stateNames, counterNames)

validatePolicySpec(spec) ==
    LET counterNames == {spec.counters[i].name : i \in {j \in DOMAIN spec.counters :
                                                           spec.counters[j].name # ""}}
    IN  /\ spec.version # ""
        /\ spec.defaultDecision \in {"allow", "deny"}
        /\ validateToolRules(spec.toolRules, spec.stateMachine)
        /\ \A i \in DOMAIN spec.counters :
               spec.counters[i].name # "" /\ spec.counters[i].scope = "session"
        /\ spec.stateMachine.present
              => validateStateMachine(spec.stateMachine, spec.toolRules, counterNames)

(***************************************************************************)
(* Policy hashing.  A JSON document is a tagged value whose objects keep   *)
(* their keys in insertion order:                                          *)
(*   [t |-> "object", e |-> << [k |-> key, v |-> document], ... >>]        *)
(*   [t |-> "array",  e |-> << document, ... >>]                           *)
(*   [t |-> "leaf",   e |-> a string, a number or an array of strings]     *)
(* The text JSON.stringify returns is represented by the document it       *)
(* writes out, entry by entry.                                             *)
(***************************************************************************)
(* SHA-256 as a collision-free digest: the tagged input stands for its hex string. *)
sha256(input) == <<"sha256", input>>

(* The keys of the policy documents as Array.prototype.sort() orders them. *)
SortedKeys ==
    <<"actionType", "allowOnlyIfRegexMatch", "cooldownMs", "counters", "defaultDecision",
      "denyIfFieldsPresent", "denyIfRegexMatch", "effect", "fromState", "guard",
      "initialState", "initialValue", "maxCallsPerSession", "maxValue", "name",
      "requireFields", "requirePreviousToolCalls", "requireState",
      "requiresToolsCalledBefore", "scope", "setsCounters", "stateMachine", "states",
      "toState", "toolName", "toolRules", "transitions", "triggeredByTool", "version">>

(* The same keys in the order a jsonb column returns them: shorter first. *)
StoredKeys ==
    <<"name", "guard", "scope", "effect", "states", "toState", "version", "counters",
      "maxValue", "toolName", "fromState", "toolRules", "actionType", "cooldownMs",
      "transitions", "initialState", "initialValue", "requireState", "setsCounters",
      "stateMachine", "requireFields", "defaultDecision", "triggeredByTool",
      "denyIfRegexMatch", "maxCallsPerSession", "denyIfFieldsPresent",
      "allowOnlyIfRegexMatch", "requirePreviousToolCalls", "requiresToolsCalledBefore">>

(* Four insertion orders of the keys of a document. *)
KeyOrders ==
    LET Reverse(seq) == [i \in 1..Len(seq) |-> seq[Len(seq) + 1 - i]]
    IN  {StoredKeys, SortedKeys, Reverse(StoredKeys), Reverse(SortedKeys)}

(* The JSON document of a policy spec whose objects were written with their
   keys in the order of keys; an optional field that is undefined has no entry. *)
PolicyDocument(spec, keys) ==
    LET Present(r, k) ==
            CASE k \in {"maxCallsPerSession", "cooldownMs"} -> r[k] # NoNumber
              [] k \in {"actionType", "requireState", "version"} -> r[k] # ""
              [] k \in {"requirePreviousToolCalls", "requireFields", "denyIfFieldsPresent",
                        "denyIfRegexMatch", "allowOnlyIfRegexMatch",
                        "requiresToolsCalledBefore"} -> r[k] # <<>>
              [] k = "setsCounters" -> DOMAIN r[k] # {}
              [] k = "guard" -> r[k].present
              [] k = "maxValue" -> r.hasMax
              [] k = "stateMachine" -> r[k].present
              [] OTHER -> TRUE
        Leaf(v) == [t |-> "leaf", e |-> v]
        Object(r, Value(_)) ==
            LET ks == SelectSeq(keys, LAMBDA k : k \in DOMAIN r /\ Present(r, k))
            IN  [t |-> "object", e |-> [i \in 1..Len(ks) |-> [k |-> ks[i], v |-> Value(ks[i])]]]
        Flat(r) == Object(r, LAMBDA k : Leaf(r[k]))
        Array(seq) == [t |-> "array", e |-> [i \in 1..Len(seq) |-> Flat(seq[i])]]
        Machine(sm) ==
            Object([states |-> sm.states, initialState |-> sm.initialState,
                    transitions |-> sm.transitions],
                   LAMBDA k : IF k = "transitions" THEN Array(sm.transitions) ELSE Leaf(sm[k]))
    IN  Object(spec, LAMBDA k : CASE k \in {"toolRules", "counters"} -> Array(spec[k])
                                  [] k = "stateMachine" -> Machine(spec[k])
                                  [] OTHER -> Leaf(spec[k]))

(* Object.keys(obj) *)
ObjectKeys(obj) == [i \in 1..Len(obj.e) |-> obj.e[i].k]

(* keys.sort() *)
SortKeys(keys) == SelectSeq(SortedKeys, LAMBDA k : Includes(keys, k))

(* sortObjectKeys of the library: a copy with the keys of every object sorted *)
RECURSIVE sortObjectKeys(_)
sortObjectKeys(obj) ==
    IF obj.t = "array"
       THEN [t |-> "array", e |-> [i \in 1..Len(obj.e) |-> sortObjectKeys(obj.e[i])]]
    ELSE IF obj.t = "object"
       THEN LET keys == SortKeys(ObjectKeys(obj))
                ValueOf(key) == obj.e[CHOOSE i \in 1..Len(obj.e) : obj.e[i].k = key].v
            IN  [t |-> "object",
                 e |-> [i \in 1..Len(keys) |-> [k |-> keys[i], v |-> sortObjectKeys(ValueOf(keys[i]))]]]
    ELSE obj

(* JSON.stringify(value) when hasList is FALSE, JSON.stringify(value,
   propertyList) otherwise: an array replacer names the properties written,
   in its order, for the objects of every depth. *)
RECURSIVE stringify(_, _, _)
stringify(value, hasList, propertyList) ==
    IF value.t = "array"
       THEN [t |-> "array",
             e |-> [i \in 1..Len(value.e) |-> stringify(value.e[i], hasList, propertyList)]]
    ELSE IF value.t = "object"
       THEN LET keys == IF hasList
                           THEN SelectSeq(propertyList, LAMBDA k : Includes(ObjectKeys(value), k))
                           ELSE ObjectKeys(value)
                ValueOf(key) == value.e[CHOOSE i \in 1..Len(value.e) : value.e[i].k = key].v
            IN  [t |-> "object",
                 e |-> [i \in 1..Len(keys) |->
                           [k |-> keys[i], v |-> stringify(ValueOf(keys[i]), hasList, propertyList)]]]
    ELSE value

(* computePolicyHash without the sort of the property list. *)
computePolicyHashUnsorted(policySpec) ==
    sha256(stringify(policySpec, TRUE, ObjectKeys(policySpec)))

(* computePolicyHash of the decision endpoint *)
computePolicyHash(policySpec) ==
    sha256(stringify(policySpec, TRUE, SortKeys(ObjectKeys(policySpec))))

(* computePolicyHash of the policy-engine library *)
libComputePolicyHash(policySpec) ==
    sha256(stringify(sortObjectKeys(policySpec), FALSE, <<>>))

(***************************************************************************)
(* The policies the editor can save or publish, and the requests the       *)
(* agents send.                                                            *)
(***************************************************************************)
RefundPolicy ==
    [version |-> "1.0", defaultDecision |-> "deny",
     toolRules |-> <<
        [Rule("verify_identity", "allow") EXCEPT !.actionType = "write"],
        [Rule("refund_payment", "allow") EXCEPT
            !.actionType = "side_effect",
            !.requireState = "verified",
            !.requirePreviousToolCalls = <<"verify_identity">>,
            !.requireFields = << <<"orderId">>, <<"amount">> >>,
            !.maxCallsPerSession = 1] >>,
     stateMachine |-> StateMachine(<<"initial", "verified", "refund_issued">>, "initial",
        << Transition("initial", "verified", "verify_identity"),
           Transition("verified", "refund_issued", "refund_payment") >>),
     counters |-> <<>>]

EscalationPolicy ==
    [version |-> "1.0", defaultDecision |-> "allow",
     toolRules |-> <<
        [Rule("verify_identity", "allow") EXCEPT !.maxCallsPerSession = 1, !.cooldownMs = 2],
        Rule("refund_payment", "allow") >>,
     stateMachine |-> StateMachine(<<"initial", "escalated">>, "initial",
        << [Transition("initial", "escalated", "verify_identity") EXCEPT
               !.setsCounters = [c \in {"attempts"} |-> 1]],
           [Transition("escalated", "initial", "refund_payment") EXCEPT
               !.setsCounters = [c \in {"attempts"} |-> 1]] >>),
     counters |-> << CounterDef("attempts", 0, TRUE, 1) >>]

PolicySpecs == {RefundPolicy, EscalationPolicy}

defaultPolicySpec ==
    [version |-> "1.0", defaultDecision |-> "deny", toolRules |-> <<>>,
     stateMachine |-> StateMachine(<<"initial">>, "initial", <<>>),
     counters |-> <<>>]

(* Specs a user can type into the editor that the policy validator of the
   policy-engine library rejects. *)
DuplicateRulePolicy ==
    [version |-> "1.0", defaultDecision |-> "deny",
     toolRules |-> << Rule("verify_identity", "allow"), Rule("verify_identity", "deny") >>,
     stateMachine |-> NoStateMachine,
     counters |-> <<>>]

DanglingPolicy ==
    [version |-> "1.0", defaultDecision |-> "deny",
     toolRules |-> << [Rule("refund_payment", "allow") EXCEPT !.requireState = "approved"] >>,
     stateMachine |-> StateMachine(<<"initial", "verified">>, "initial",
        << [Transition("initial", "verified", "refund_payment") EXCEPT
               !.setsCounters = [c \in {"refunds"} |-> 1],
               !.guard = Guard("refunds", "<", 1)] >>),
     counters |-> <<>>]

SelfLoopPolicy ==
    [version |-> "1.0", defaultDecision |-> "allow",
     toolRules |-> << Rule("lookup", "allow") >>,
     stateMachine |-> StateMachine(<<"initial">>, "initial",
        << Transition("initial", "initial", "lookup") >>),
     counters |-> <<>>]

(* A spec the editor page itself refuses: JSON without a version. *)
NoVersionPolicy == [defaultPolicySpec EXCEPT !.version = ""]

EditorSpecs ==
    PolicySpecs \cup {DuplicateRulePolicy, DanglingPolicy, SelfLoopPolicy, NoVersionPolicy}

EditorPolicyIds == {"p1", "p2"}

OrderPayload == JObj([k \in {"orderId", "amount"} |-> IF k = "orderId" THEN JStr("o1") ELSE JNum(100)])

EmptyPayload == JObj([k \in {} |-> Undefined])

Request(tool, actionType, payload) ==
    [toolName |-> tool, actionType |-> actionType, payload |-> payload]

Requests ==
    { Request("verify_identity", "", EmptyPayload),
      Request("refund_payment", "side_effect", OrderPayload),
      Request("lookup", "read", EmptyPayload) }

Workers == {1, 2}

SessionIds == {"s1"}

PolicyIds == {"p1"}

(***************************************************************************)
(* State.                                                                  *)
(*   policies     table policies: policy id -> row                         *)
(*   selectedPolicy  the editor page's selectedPolicy snapshot             *)
(*   sessions     table execution_sessions: session_id -> row (one env)    *)
(*   rateLimits   table api_key_rate_limits: window_start -> request_count *)
(*   auditLog     table tool_call_logs, in insertion order                 *)
(*   workers      one request handler per worker: its position and locals  *)
(*   now          the latest reading of the wall clock (Date.now())        *)
(* History variables (not program state):                                  *)
(*   lockedSpec   session_id -> the policy_spec its creating request read  *)
(*   rateRequests window_start -> requests that ran the rate-limit step    *)
(*   decisions    every evaluation made, in order                          *)
(*   budget       what is left of the bounds: requests still to start,     *)
(*                editor operations still to make, clock units to pass,    *)
(*                database calls that may still fail                       *)
(* Further tables and the evaluator called on its own:                     *)
(*   policyVersions  table policy_versions: set of rows                    *)
(*   evalCall     the arguments of a direct call of evaluateToolCall       *)
(*   evalResult   what that call returned                                  *)
(***************************************************************************)
VARIABLES policies, selectedPolicy, sessions, rateLimits, auditLog, workers, now,
          lockedSpec, rateRequests, decisions, budget,
          policyVersions, evalCall, evalResult

vars == <<policies, selectedPolicy, sessions, rateLimits, auditLog, workers, now,
          lockedSpec, rateRequests, decisions, budget,
          policyVersions, evalCall, evalResult>>

evalVars == <<evalCall, evalResult>>

NoPolicySpec ==
    [version |-> "", defaultDecision |-> "deny", toolRules |-> <<>>,
     stateMachine |-> NoStateMachine, counters |-> <<>>]

NoSession ==
    [id |-> "", policyId |-> "", policyVersionLocked |-> 0, initialState |-> "",
     currentState |-> "", counters |-> EmptyMap, toolCallsHistory |-> <<>>,
     toolCallCounts |-> EmptyMap, lastToolCallTimes |-> EmptyMap]

NoResult ==
    [allowed |-> FALSE, errorCode |-> NoError, reasons |-> <<>>, newState |-> "",
     newCounters |-> EmptyMap, newToolCallCounts |-> EmptyMap]

NoResponse ==
    [status |-> 0, allowed |-> FALSE, errorCode |-> NoError, policyVersionUsed |-> 0,
     stateBefore |-> "", stateAfter |-> "", fault |-> ""]

NoSelection == [id |-> "", version |-> 0]

(* No direct call of an evaluator has been made; returned names the function
   that has returned evalResult, calls counts its invocations on these
   argument objects. *)
NoCall ==
    [policy |-> NoPolicySpec, toolName |-> "", actionType |-> "", payload |-> EmptyPayload,
     currentState |-> "", previousToolsCalled |-> <<>>, counters |-> EmptyMap,
     toolCallCounts |-> EmptyMap, lastToolCallTimes |-> EmptyMap, timestamp |-> 0,
     returned |-> "", calls |-> 0]

IdleWorker ==
    [pc |-> "idle", sessionId |-> "", toolName |-> "", actionType |-> "",
     payload |-> EmptyPayload, timestamp |-> 0, rateData |-> 0,
     policy |-> NoPolicySpec, policyVersion |-> 0, policyId |-> "",
     existed |-> FALSE, session |-> NoSession, result |-> NoResult,
     response |-> NoResponse, fault |-> ""]

Init ==
    /\ policies = [p \in {} |-> 0]
    /\ selectedPolicy = NoSelection
    /\ sessions = [s \in {} |-> 0]
    /\ rateLimits = EmptyMap
    /\ auditLog = <<>>
    /\ workers = [w \in Workers |-> IdleWorker]
    /\ now = 0
    /\ lockedSpec = [s \in {} |-> 0]
    /\ rateRequests = EmptyMap
    /\ decisions = <<>>
    /\ budget = [requests |-> MaxRequests, policyOps |-> MaxPolicyOps, clock |-> MaxTime,
                 faults |-> 0]
    /\ policyVersions = {}
    /\ evalCall = NoCall
    /\ evalResult = NoResult

(***************************************************************************)
(* Policy editor page.                                                     *)
(***************************************************************************)
(* validatePolicySpec of the editor page: the three presence tests. *)
EditorValidatePolicySpec(spec) ==
    /\ spec.version # ""
    /\ spec.defaultDecision # ""
    /\ Len(spec.toolRules) >= 0

NewPolicyRow(spec) == [version |-> 1, status |-> "draft", policy_spec |-> spec]

CreatePolicy(pid, spec) ==
    /\ pid \notin DOMAIN policies
    /\ policies' = Put(policies, pid, NewPolicyRow(spec))
    /\ UNCHANGED <<selectedPolicy, sessions, rateLimits, auditLog, workers, now,
                   lockedSpec, rateRequests, decisions, budget,
                   policyVersions, evalVars>>

SelectPolicy(pid) ==
    /\ pid \in DOMAIN policies
    /\ selectedPolicy # [id |-> pid, version |-> policies[pid].version]
    /\ budget.policyOps > 0
    /\ selectedPolicy' = [id |-> pid, version |-> policies[pid].version]
    /\ UNCHANGED <<policies, sessions, rateLimits, auditLog, workers, now,
                   lockedSpec, rateRequests, decisions, budget,
                   policyVersions, evalVars>>

SavedRow(row, spec) == [row EXCEPT !.policy_spec = spec]

SavePolicy(spec) ==
    /\ selectedPolicy # NoSelection
    /\ budget.policyOps > 0
    /\ EditorValidatePolicySpec(spec)
    /\ policies' = [policies EXCEPT ![selectedPolicy.id] = SavedRow(@, spec)]
    /\ budget' = [budget EXCEPT !.policyOps = @ - 1]
    /\ UNCHANGED <<selectedPolicy, sessions, rateLimits, auditLog, workers, now,
                   lockedSpec, rateRequests, decisions,
                   policyVersions, evalVars>>

PublishedRow(row, spec, selectedVersion) ==
    [row EXCEPT !.policy_spec = spec, !.status = "published", !.version = selectedVersion + 1]

PublishPolicy(spec) ==
    /\ selectedPolicy # NoSelection
    /\ budget.policyOps > 0
    /\ EditorValidatePolicySpec(spec)
    /\ policies' = [policies EXCEPT
                       ![selectedPolicy.id] = PublishedRow(@, spec, selectedPolicy.version)]
    /\ budget' = [budget EXCEPT !.policyOps = @ - 1]
    /\ UNCHANGED <<selectedPolicy, sessions, rateLimits, auditLog, workers, now,
                   lockedSpec, rateRequests, decisions,
                   policyVersions, evalVars>>

(***************************************************************************)
(* The request handler (Deno.serve), one action per database round trip.   *)
(* The request is taken to carry a valid, unrevoked API key and a          *)
(* well-formed body, so the handler reaches the rate-limit step.           *)
(***************************************************************************)
WindowStart(timestamp) == (timestamp \div WINDOW_MS) * WINDOW_MS

ErrorResponse(status, code) == [NoResponse EXCEPT !.status = status, !.errorCode = code]

(* return new Response(...): the handler ends and its locals are gone; the
   worker keeps the response it sent until it takes its next request.  The
   response is marked with the failure (of a database call, or of the
   configuration) that the handler met on its way, "" if none. *)
Respond(me, response) == [IdleWorker EXCEPT !.response = [response EXCEPT !.fault = me.fault]]

(* upsert({request_count: 1}, {onConflict, ignoreDuplicates: false}): insert the
   row, or on conflict overwrite the given columns; returns the written row. *)
UpsertRateRow(table, windowStart) == Put(table, windowStart, 1)

AllIdle == \A w \in Workers : workers[w].pc = "idle"

(* The pool hands a request to its first free worker. *)
FirstFree(w) == workers[w].pc = "idle" /\ \A v \in Workers : v < w => workers[v].pc # "idle"

(* From const timestamp = Date.now() to the rate-limit upsert: the clock is
   read once, when the request starts, having advanced by any amount since
   its previous reading; nothing but the handler's locals changes before the
   upsert. *)
RateUpsert(w, sid, req) ==
    /\ FirstFree(w)
    /\ budget.requests > 0
    /\ \E timestamp \in now..(now + budget.clock) :
          LET windowStart == WindowStart(timestamp)
          IN  /\ now' = timestamp
              /\ budget' = [budget EXCEPT !.requests = @ - 1,
                                          !.clock = @ - (timestamp - now)]
              /\ rateLimits' = UpsertRateRow(rateLimits, windowStart)
              /\ workers' = [workers EXCEPT ![w] =
                                [IdleWorker EXCEPT !.pc = "rate_update",
                                                   !.sessionId = sid,
                                                   !.toolName = req.toolName,
                                                   !.actionType = req.actionType,
                                                   !.payload = req.payload,
                                                   !.timestamp = timestamp,
                                                   !.rateData = rateLimits'[windowStart]]]
    /\ UNCHANGED <<policies, selectedPolicy, sessions, auditLog,
                   lockedSpec, rateRequests, decisions,
                   policyVersions, evalVars>>

RateLimited(requestCount) == requestCount >= RATE_LIMIT_REQUESTS_PER_MINUTE

RateUpdate(w) ==
    /\ workers[w].pc = "rate_update"
    /\ LET windowStart == WindowStart(workers[w].timestamp)
       IN  /\ rateLimits' = [rateLimits EXCEPT ![windowStart] = workers[w].rateData + 1]
           /\ rateRequests' = Put(rateRequests, windowStart, Get(rateRequests, windowStart, 0) + 1)
    /\ workers' = IF RateLimited(workers[w].rateData)
                     THEN [workers EXCEPT ![w] = Respond(workers[w], ErrorResponse(429, "RATE_LIMITED"))]
                     ELSE [workers EXCEPT ![w].pc = "policy_fetch"]
    /\ UNCHANGED <<policies, selectedPolicy, sessions, auditLog, now,
                   lockedSpec, decisions, budget,
                   policyVersions, evalVars>>

(* .eq('status','published').order('version', desc).limit(1).single() *)
PublishedTop ==
    LET published == {pid \in DOMAIN policies : policies[pid].status = "published"}
    IN  {pid \in published : \A q \in published : policies[q].version <= policies[pid].version}

(* select('*').eq('env_id', envId).eq('session_id', sessionId).single() *)
SessionLookup(me) ==
    IF me.sessionId \in DOMAIN sessions
       THEN [me EXCEPT !.pc = "evaluate", !.existed = TRUE, !.session = sessions[me.sessionId]]
       ELSE [me EXCEPT !.pc = "session_insert"]

(* The two reads that follow the rate limit: the published policy of the
   environment, then the session row.  They read different tables and no
   step writes both, so they are taken in one step. *)
PolicyFetch(w) ==
    /\ workers[w].pc = "policy_fetch"
    /\ IF PublishedTop = {}
          THEN workers' = [workers EXCEPT ![w] = Respond(workers[w], ErrorResponse(404, "POLICY_NOT_FOUND"))]
          ELSE \E pid \in PublishedTop :
                LET fetched == [workers[w] EXCEPT !.policy = policies[pid].policy_spec,
                                                  !.policyVersion = policies[pid].version,
                                                  !.policyId = pid]
                IN  workers' = [workers EXCEPT ![w] = SessionLookup(fetched)]
    /\ UNCHANGED <<policies, selectedPolicy, sessions, rateLimits, auditLog, now,
                   lockedSpec, rateRequests, decisions, budget,
                   policyVersions, evalVars>>

InitialStateOf(policy) ==
    IF policy.stateMachine.present THEN policy.stateMachine.initialState ELSE "initial"

NewSessionRow(sessionId, policyId, policyVersion, initialState) ==
    [id |-> sessionId, policyId |-> policyId, policyVersionLocked |-> policyVersion,
     initialState |-> initialState, currentState |-> initialState,
     counters |-> EmptyMap, toolCallsHistory |-> <<>>,
     toolCallCounts |-> EmptyMap, lastToolCallTimes |-> EmptyMap]

(* insert(...): the unique key (env_id, session_id) rejects a second row (23505) *)
SessionInsert(w) ==
    /\ workers[w].pc = "session_insert"
    /\ LET me == workers[w]
           row == NewSessionRow(me.sessionId, me.policyId, me.policyVersion,
                                InitialStateOf(me.policy))
       IN  IF me.sessionId \notin DOMAIN sessions
              THEN /\ sessions' = Put(sessions, me.sessionId, row)
                   /\ lockedSpec' = Put(lockedSpec, me.sessionId, me.policy)
                   /\ workers' = [workers EXCEPT ![w].pc = "evaluate", ![w].session = row]
              ELSE /\ workers' = [workers EXCEPT ![w].pc = "session_retry"]
                   /\ UNCHANGED <<sessions, lockedSpec>>
    /\ UNCHANGED <<policies, selectedPolicy, rateLimits, auditLog, now,
                   rateRequests, decisions, budget,
                   policyVersions, evalVars>>

(* A loser of the insert race that goes on with the row it tried to insert. *)
SessionRetryOwnRow(w) ==
    /\ workers[w].pc = "session_retry"
    /\ workers' = [workers EXCEPT ![w].pc = "evaluate",
                                  ![w].session =
                                      NewSessionRow(workers[w].sessionId, workers[w].policyId,
                                                    workers[w].policyVersion,
                                                    InitialStateOf(workers[w].policy))]
    /\ UNCHANGED <<policies, selectedPolicy, sessions, rateLimits, auditLog, now,
                   lockedSpec, rateRequests, decisions, budget,
                   policyVersions, evalVars>>

SessionRetry(w) ==
    /\ workers[w].pc = "session_retry"
    /\ workers' = [workers EXCEPT ![w].pc = "evaluate",
                                  ![w].session = sessions[workers[w].sessionId]]
    /\ UNCHANGED <<policies, selectedPolicy, sessions, rateLimits, auditLog, now,
                   lockedSpec, rateRequests, decisions, budget,
                   policyVersions, evalVars>>

(* payload_redacted is the payload itself: the payloads of Requests hold no
   sensitive name and no sensitive value; timestamp is the column default,
   the time of the insert.  *)
(* policyData.policy_hash || await computePolicyHash(policy): no code writes
   the policy_hash column, and the fetched policy_spec is a jsonb value. *)
PolicyHashOf(policy) == computePolicyHash(PolicyDocument(policy, StoredKeys))

AuditEntry(me, result) ==
    [execution_session_id |-> me.session.id,
     tool_name |-> me.toolName,
     action_type |-> me.actionType,
     payload_redacted |-> me.payload,
     timestamp |-> me.timestamp,
     decision |-> IF result.allowed THEN "allowed" ELSE "blocked",
     decision_reasons |-> result.reasons,
     error_code |-> result.errorCode,
     policy_version_used |-> me.session.policyVersionLocked,
     policy_hash |-> PolicyHashOf(me.policy),
     state_before |-> me.session.currentState,
     state_after |-> result.newState,
     counters_before |-> me.session.counters,
     counters_after |-> result.newCounters]

DecisionRecord(w, me, result) ==
    [worker |-> w, sessionId |-> me.sessionId, toolName |-> me.toolName,
     actionType |-> me.actionType, payload |-> me.payload,
     timestamp |-> me.timestamp, existed |-> me.existed,
     allowed |-> result.allowed, errorCode |-> result.errorCode,
     specUsed |-> me.policy, snapshot |-> me.session]

(* integrity check, evaluateToolCall on the snapshot read, insert into tool_call_logs *)
Evaluate(w) ==
    /\ workers[w].pc = "evaluate"
    /\ LET me == workers[w]
           result == evaluateToolCall(me.policy, me.toolName, me.actionType, me.payload,
                                      me.session.currentState, me.session.toolCallsHistory,
                                      me.session.counters, me.session.toolCallCounts,
                                      me.session.lastToolCallTimes, me.timestamp)
       IN  IF me.session.currentState = "" \/ me.session.id = ""
              THEN /\ workers' = [workers EXCEPT ![w] = Respond(me, ErrorResponse(500, "SESSION_CORRUPTED"))]
                   /\ UNCHANGED <<auditLog, decisions>>
              ELSE /\ workers' = [workers EXCEPT ![w].pc = "session_update", ![w].result = result]
                   /\ auditLog' = Append(auditLog, AuditEntry(me, result))
                   /\ decisions' = Append(decisions, DecisionRecord(w, me, result))
    /\ UNCHANGED <<policies, selectedPolicy, sessions, rateLimits, now,
                   lockedSpec, rateRequests, budget,
                   policyVersions, evalVars>>

(* Array.prototype.slice(start) for start <= 0 *)
SliceFrom(seq, start) ==
    LET from == IF start < 0 THEN (IF Len(seq) + start > 0 THEN Len(seq) + start ELSE 0) ELSE start
    IN  SubSeq(seq, from + 1, Len(seq))

(* newHistory for a configuration whose MAX_HISTORY_LENGTH is maxHistoryLength *)
NewHistoryFor(maxHistoryLength, toolCallsHistory, toolName) ==
    IF Len(toolCallsHistory) < maxHistoryLength
       THEN Append(toolCallsHistory, toolName)
       ELSE Append(SliceFrom(toolCallsHistory, -maxHistoryLength + 1), toolName)

NewHistory(toolCallsHistory, toolName) ==
    NewHistoryFor(MAX_HISTORY_LENGTH, toolCallsHistory, toolName)

(* A session update that also rewrites the lock. *)
UpdatedSessionRowRelock(row, snapshot, result, toolName, timestamp) ==
    [row EXCEPT !.policyVersionLocked = @ + 1,
                !.currentState = result.newState,
                !.counters = result.newCounters,
                !.toolCallsHistory = NewHistory(snapshot.toolCallsHistory, toolName),
                !.toolCallCounts = result.newToolCallCounts,
                !.lastToolCallTimes = Put(snapshot.lastToolCallTimes, toolName, timestamp)]

UpdatedSessionRow(row, snapshot, result, toolName, timestamp) ==
    [row EXCEPT !.currentState = result.newState,
                !.counters = result.newCounters,
                !.toolCallsHistory = NewHistory(snapshot.toolCallsHistory, toolName),
                !.toolCallCounts = result.newToolCallCounts,
                !.lastToolCallTimes = Put(snapshot.lastToolCallTimes, toolName, timestamp)]

DecisionResponse(me) ==
    [status |-> 200, allowed |-> me.result.allowed, errorCode |-> me.result.errorCode,
     policyVersionUsed |-> me.session.policyVersionLocked,
     policyHash |-> PolicyHashOf(me.policy),
     stateBefore |-> me.session.currentState, stateAfter |-> me.result.newState,
     fault |-> ""]

SessionUpdate(w) ==
    /\ workers[w].pc = "session_update"
    /\ LET me == workers[w]
       IN  /\ sessions' = [sessions EXCEPT ![me.session.id] =
                              UpdatedSessionRow(@, me.session, me.result, me.toolName, me.timestamp)]
           /\ workers' = [workers EXCEPT ![w] = Respond(me, DecisionResponse(me))]
    /\ UNCHANGED <<policies, selectedPolicy, rateLimits, auditLog, now,
                   lockedSpec, rateRequests, decisions, budget,
                   policyVersions, evalVars>>

Next ==
    \/ \E pid \in PolicyIds : CreatePolicy(pid, defaultPolicySpec)
    \/ \E pid \in PolicyIds : SelectPolicy(pid)
    \/ \E spec \in PolicySpecs : SavePolicy(spec)
    \/ \E spec \in PolicySpecs : PublishPolicy(spec)
    \/ \E w \in Workers, sid \in SessionIds, req \in Requests : RateUpsert(w, sid, req)
    \/ \E w \in Workers : RateUpdate(w)
    \/ \E w \in Workers : PolicyFetch(w)
    \/ \E w \in Workers : SessionInsert(w)
    \/ \E w \in Workers : SessionRetry(w)
    \/ \E w \in Workers : Evaluate(w)
    \/ \E w \in Workers : SessionUpdate(w)

Spec == Init /\ [][Next]_vars

(* The same system with room for a second editor write. *)
InitWide ==
    /\ policies = [p \in {} |-> 0]
    /\ selectedPolicy = NoSelection
    /\ sessions = [s \in {} |-> 0]
    /\ rateLimits = EmptyMap
    /\ auditLog = <<>>
    /\ workers = [w \in Workers |-> IdleWorker]
    /\ now = 0
    /\ lockedSpec = [s \in {} |-> 0]
    /\ rateRequests = EmptyMap
    /\ decisions = <<>>
    /\ budget = [requests |-> MaxRequestsWide, policyOps |-> MaxPolicyOpsWide,
                 clock |-> MaxTimeWide, faults |-> 0]
    /\ policyVersions = {}
    /\ evalCall = NoCall
    /\ evalResult = NoResult

SpecWide == InitWide /\ [][Next]_vars

(* The same system with more requests than the rate limit admits. *)
InitRate ==
    /\ policies = [p \in {} |-> 0]
    /\ selectedPolicy = NoSelection
    /\ sessions = [s \in {} |-> 0]
    /\ rateLimits = EmptyMap
    /\ auditLog = <<>>
    /\ workers = [w \in Workers |-> IdleWorker]
    /\ now = 0
    /\ lockedSpec = [s \in {} |-> 0]
    /\ rateRequests = EmptyMap
    /\ decisions = <<>>
    /\ budget = [requests |-> MaxRequestsRate, policyOps |-> MaxPolicyOpsRate,
                 clock |-> MaxTimeRate, faults |-> 0]
    /\ policyVersions = {}
    /\ evalCall = NoCall
    /\ evalResult = NoResult

SpecRate == InitRate /\ [][Next]_vars

(***************************************************************************)
(* The policy editor page alone, with two policies in the environment and  *)
(* everything a user can type into the editor.                             *)
(***************************************************************************)
InitEditor ==
    /\ policies = [p \in {} |-> 0]
    /\ selectedPolicy = NoSelection
    /\ sessions = [s \in {} |-> 0]
    /\ rateLimits = EmptyMap
    /\ auditLog = <<>>
    /\ workers = [w \in Workers |-> IdleWorker]
    /\ now = 0
    /\ lockedSpec = [s \in {} |-> 0]
    /\ rateRequests = EmptyMap
    /\ decisions = <<>>
    /\ budget = [requests |-> 0, policyOps |-> MaxPolicyOpsEditor, clock |-> 0,
                 faults |-> 0]
    /\ policyVersions = {}
    /\ evalCall = NoCall
    /\ evalResult = NoResult

NextEditor ==
    \/ \E pid \in EditorPolicyIds : CreatePolicy(pid, defaultPolicySpec)
    \/ \E pid \in EditorPolicyIds : SelectPolicy(pid)
    \/ \E spec \in EditorSpecs : SavePolicy(spec)
    \/ \E spec \in EditorSpecs : PublishPolicy(spec)

SpecEditor == InitEditor /\ [][NextEditor]_vars

(***************************************************************************)
(* The handler's gateway: API key authentication, and the handler's way    *)
(* through a failing database call or a missing configuration.  An API key *)
(* is a sequence of characters.                                            *)
(***************************************************************************)
MIN_API_KEY_LENGTH == 3

KEY_PREFIX_LENGTH == 2

MaxRequestsGateway == 2

MaxPolicyOpsGateway == 1

MaxFaults == 1

constantTimeCompare(a, b) == Len(a) = Len(b) /\ \A i \in 1..Len(a) : a[i] = b[i]

ActiveSecret == <<"k", "1", "a">>

RevokedSecret == <<"k", "1", "r">>

UnknownSecret == <<"k", "1", "x">>

ShortSecret == <<"k", "1">>

Secrets == {ActiveSecret, RevokedSecret, UnknownSecret, ShortSecret}

(* A row of api_keys; revoked_at is NoNumber while the key is not revoked. *)
ApiKeyRow(id, secret, revoked_at) ==
    [id |-> id, env_id |-> "env1", key_prefix |-> SubSeq(secret, 1, KEY_PREFIX_LENGTH),
     key_hash |-> sha256(secret), revoked_at |-> revoked_at]

ApiKeys == {ApiKeyRow("key1", ActiveSecret, NoNumber), ApiKeyRow("key2", RevokedSecret, 0)}

(* .eq('key_prefix', keyPrefix).is('revoked_at', null).limit(10) *)
ApiKeyLookup(keyPrefix) ==
    {k \in ApiKeys : k.key_prefix = keyPrefix /\ k.revoked_at = NoNumber}

(* The response that ends the request at authentication, NoResponse when the
   key is accepted. *)
Authenticate(apiKey) ==
    IF Len(apiKey) < MIN_API_KEY_LENGTH
       THEN ErrorResponse(401, "INVALID_API_KEY")
       ELSE LET keyPrefix == SubSeq(apiKey, 1, KEY_PREFIX_LENGTH)
                keyHash == sha256(apiKey)
                matching == {k \in ApiKeyLookup(keyPrefix) : constantTimeCompare(k.key_hash, keyHash)}
            IN  IF matching = {}
                   THEN ErrorResponse(401, "INVALID_API_KEY")
                   ELSE IF (CHOOSE k \in matching : TRUE).revoked_at # NoNumber
                           THEN ErrorResponse(401, "API_KEY_REVOKED")
                           ELSE NoResponse

(* A request whose key is not accepted ends before the rate limit. *)
RejectApiKey(w, apiKey) ==
    /\ FirstFree(w)
    /\ budget.requests > 0
    /\ Authenticate(apiKey) # NoResponse
    /\ workers' = [workers EXCEPT ![w] = Respond(IdleWorker, Authenticate(apiKey))]
    /\ budget' = [budget EXCEPT !.requests = @ - 1]
    /\ UNCHANGED <<policies, selectedPolicy, sessions, rateLimits, auditLog, now,
                   lockedSpec, rateRequests, decisions,
                   policyVersions, evalVars>>

(* failClosed(errorCode, message, 500, duration) *)
failClosed(errorCode) == ErrorResponse(500, errorCode)

Failing(me, fault) == [me EXCEPT !.fault = fault]

(* SUPABASE_URL or SUPABASE_SERVICE_ROLE_KEY is not set *)
MissingConfiguration(w) ==
    /\ FirstFree(w)
    /\ budget.requests > 0
    /\ budget.faults > 0
    /\ workers' = [workers EXCEPT ![w] =
                      Respond(Failing(IdleWorker, "configuration"), failClosed("DATABASE_UNAVAILABLE"))]
    /\ budget' = [budget EXCEPT !.requests = @ - 1, !.faults = @ - 1]
    /\ UNCHANGED <<policies, selectedPolicy, sessions, rateLimits, auditLog, now,
                   lockedSpec, rateRequests, decisions,
                   policyVersions, evalVars>>

(* apiKeyError *)
ApiKeyLookupFails(w) ==
    /\ FirstFree(w)
    /\ budget.requests > 0
    /\ budget.faults > 0
    /\ workers' = [workers EXCEPT ![w] =
                      Respond(Failing(IdleWorker, "database"), failClosed("DATABASE_UNAVAILABLE"))]
    /\ budget' = [budget EXCEPT !.requests = @ - 1, !.faults = @ - 1]
    /\ UNCHANGED <<policies, selectedPolicy, sessions, rateLimits, auditLog, now,
                   lockedSpec, rateRequests, decisions,
                   policyVersions, evalVars>>

(* rateError: the block under if (!rateError && rateData) is skipped and the
   handler goes on to the policy. *)
RateUpsertFails(w, sid, req) ==
    /\ FirstFree(w)
    /\ budget.requests > 0
    /\ budget.faults > 0
    /\ \E timestamp \in now..(now + budget.clock) :
          /\ now' = timestamp
          /\ budget' = [budget EXCEPT !.requests = @ - 1, !.faults = @ - 1,
                                      !.clock = @ - (timestamp - now)]
          /\ workers' = [workers EXCEPT ![w] =
                            [IdleWorker EXCEPT !.pc = "policy_fetch",
                                               !.sessionId = sid,
                                               !.toolName = req.toolName,
                                               !.actionType = req.actionType,
                                               !.payload = req.payload,
                                               !.timestamp = timestamp,
                                               !.fault = "database"]]
    /\ UNCHANGED <<policies, selectedPolicy, sessions, rateLimits, auditLog,
                   lockedSpec, rateRequests, decisions,
                   policyVersions, evalVars>>

(* updateError: the count is not raised and the limit is not applied. *)
RateUpdateFails(w) ==
    /\ workers[w].pc = "rate_update"
    /\ budget.faults > 0
    /\ workers' = [workers EXCEPT ![w] = Failing([@ EXCEPT !.pc = "policy_fetch"], "database")]
    /\ budget' = [budget EXCEPT !.faults = @ - 1]
    /\ UNCHANGED <<policies, selectedPolicy, sessions, rateLimits, auditLog, now,
                   lockedSpec, rateRequests, decisions,
                   policyVersions, evalVars>>

(* policyError || !policyData *)
PolicyFetchFails(w) ==
    /\ workers[w].pc = "policy_fetch"
    /\ budget.faults > 0
    /\ workers' = [workers EXCEPT ![w] =
                      Respond(Failing(@, "database"), ErrorResponse(404, "POLICY_NOT_FOUND"))]
    /\ budget' = [budget EXCEPT !.faults = @ - 1]
    /\ UNCHANGED <<policies, selectedPolicy, sessions, rateLimits, auditLog, now,
                   lockedSpec, rateRequests, decisions,
                   policyVersions, evalVars>>

(* sessionError with a code other than PGRST116, after the policy was read *)
SessionLookupFails(w) ==
    /\ workers[w].pc = "policy_fetch"
    /\ PublishedTop # {}
    /\ budget.faults > 0
    /\ workers' = [workers EXCEPT ![w] =
                      Respond(Failing(@, "database"), failClosed("DATABASE_UNAVAILABLE"))]
    /\ budget' = [budget EXCEPT !.faults = @ - 1]
    /\ UNCHANGED <<policies, selectedPolicy, sessions, rateLimits, auditLog, now,
                   lockedSpec, rateRequests, decisions,
                   policyVersions, evalVars>>

(* createError with a code other than 23505 *)
SessionInsertFails(w) ==
    /\ workers[w].pc = "session_insert"
    /\ budget.faults > 0
    /\ workers' = [workers EXCEPT ![w] =
                      Respond(Failing(@, "database"), failClosed("INTERNAL_ERROR"))]
    /\ budget' = [budget EXCEPT !.faults = @ - 1]
    /\ UNCHANGED <<policies, selectedPolicy, sessions, rateLimits, auditLog, now,
                   lockedSpec, rateRequests, decisions,
                   policyVersions, evalVars>>

(* retryError || !retrySession *)
SessionRetryFails(w) ==
    /\ workers[w].pc = "session_retry"
    /\ budget.faults > 0
    /\ workers' = [workers EXCEPT ![w] =
                      Respond(Failing(@, "database"), failClosed("DATABASE_UNAVAILABLE"))]
    /\ budget' = [budget EXCEPT !.faults = @ - 1]
    /\ UNCHANGED <<policies, selectedPolicy, sessions, rateLimits, auditLog, now,
                   lockedSpec, rateRequests, decisions,
                   policyVersions, evalVars>>

(* logError: the decision is made and not logged; the handler goes on. *)
AuditInsertFails(w) ==
    /\ workers[w].pc = "evaluate"
    /\ budget.faults > 0
    /\ LET me == workers[w]
           result == evaluateToolCall(me.policy, me.toolName, me.actionType, me.payload,
                                      me.session.currentState, me.session.toolCallsHistory,
                                      me.session.counters, me.session.toolCallCounts,
                                      me.session.lastToolCallTimes, me.timestamp)
       IN  /\ me.session.currentState # ""
           /\ me.session.id # ""
           /\ workers' = [workers EXCEPT ![w] =
                             Failing([me EXCEPT !.pc = "session_update", !.result = result],
                                     "database")]
           /\ decisions' = Append(decisions, DecisionRecord(w, me, result))
    /\ budget' = [budget EXCEPT !.faults = @ - 1]
    /\ UNCHANGED <<policies, selectedPolicy, sessions, rateLimits, auditLog, now,
                   lockedSpec, rateRequests,
                   policyVersions, evalVars>>

(* A handler that answers a failed session update with failClosed. *)
SessionUpdateFailsClosed(w) ==
    /\ workers[w].pc = "session_update"
    /\ budget.faults > 0
    /\ workers' = [workers EXCEPT ![w] =
                      Respond(Failing(@, "database"), failClosed("DATABASE_UNAVAILABLE"))]
    /\ budget' = [budget EXCEPT !.faults = @ - 1]
    /\ UNCHANGED <<policies, selectedPolicy, sessions, rateLimits, auditLog, now,
                   lockedSpec, rateRequests, decisions,
                   policyVersions, evalVars>>

(* updateError: "Continue anyway - the decision was already made" *)
SessionUpdateFails(w) ==
    /\ workers[w].pc = "session_update"
    /\ budget.faults > 0
    /\ workers' = [workers EXCEPT ![w] =
                      Respond(Failing(@, "database"), DecisionResponse(@))]
    /\ budget' = [budget EXCEPT !.faults = @ - 1]
    /\ UNCHANGED <<policies, selectedPolicy, sessions, rateLimits, auditLog, now,
                   lockedSpec, rateRequests, decisions,
                   policyVersions, evalVars>>

InitGateway ==
    /\ policies = [p \in {} |-> 0]
    /\ selectedPolicy = NoSelection
    /\ sessions = [s \in {} |-> 0]
    /\ rateLimits = EmptyMap
    /\ auditLog = <<>>
    /\ workers = [w \in Workers |-> IdleWorker]
    /\ now = 0
    /\ lockedSpec = [s \in {} |-> 0]
    /\ rateRequests = EmptyMap
    /\ decisions = <<>>
    /\ budget = [requests |-> MaxRequestsGateway, policyOps |-> MaxPolicyOpsGateway,
                 clock |-> 0, faults |-> MaxFaults]
    /\ policyVersions = {}
    /\ evalCall = NoCall
    /\ evalResult = NoResult

NextGateway ==
    \/ Next
    \/ \E w \in Workers, apiKey \in Secrets : RejectApiKey(w, apiKey)
    \/ \E w \in Workers : MissingConfiguration(w)
    \/ \E w \in Workers : ApiKeyLookupFails(w)
    \/ \E w \in Workers, sid \in SessionIds, req \in Requests : RateUpsertFails(w, sid, req)
    \/ \E w \in Workers : RateUpdateFails(w)
    \/ \E w \in Workers : PolicyFetchFails(w)
    \/ \E w \in Workers : SessionLookupFails(w)
    \/ \E w \in Workers : SessionInsertFails(w)
    \/ \E w \in Workers : SessionRetryFails(w)
    \/ \E w \in Workers : AuditInsertFails(w)
    \/ \E w \in Workers : SessionUpdateFails(w)

SpecGateway == InitGateway /\ [][NextGateway]_vars

(***************************************************************************)
(* The two evaluators called directly, on every input of a bounded set.    *)
(***************************************************************************)
(* The arguments of the evaluator calls: policy, tool call, state, history,
   counters, call counts, last call times and timestamp. *)
EvalCalls ==
    {[policy |-> policy, toolName |-> req.toolName, actionType |-> req.actionType,
      payload |-> req.payload, currentState |-> currentState,
      previousToolsCalled |-> previousToolsCalled, counters |-> counters,
      toolCallCounts |-> toolCallCounts, lastToolCallTimes |-> lastToolCallTimes,
      timestamp |-> timestamp, returned |-> "", calls |-> 0] :
        policy \in {RefundPolicy, EscalationPolicy, defaultPolicySpec,
                    [defaultPolicySpec EXCEPT !.defaultDecision = "allow"]},
        req \in Requests,
        currentState \in {"initial", "verified", "escalated"},
        previousToolsCalled \in {<<>>, <<"verify_identity">>},
        counters \in {EmptyMap, [c \in {"attempts"} |-> 1]},
        toolCallCounts \in {EmptyMap, [t \in {"verify_identity"} |-> 1]},
        lastToolCallTimes \in {EmptyMap, [t \in {"verify_identity"} |-> 0]},
        timestamp \in {1, 2, 3}}

InitEval ==
    /\ policies = [p \in {} |-> 0]
    /\ selectedPolicy = NoSelection
    /\ sessions = [s \in {} |-> 0]
    /\ rateLimits = EmptyMap
    /\ auditLog = <<>>
    /\ workers = [w \in Workers |-> IdleWorker]
    /\ now = 0
    /\ lockedSpec = [s \in {} |-> 0]
    /\ rateRequests = EmptyMap
    /\ decisions = <<>>
    /\ budget = [requests |-> 0, policyOps |-> 0, clock |-> 0, faults |-> 0]
    /\ policyVersions = {}
    /\ evalCall \in EvalCalls
    /\ evalResult = NoResult

MaxCalls == 2

(* An evaluator that writes the counters and the call counts into the objects
   it was given. *)
ArgumentsAfterAliased(call, result) ==
    [call EXCEPT !.counters = result.newCounters, !.toolCallCounts = result.newToolCallCounts]

(* The argument objects when the evaluator has returned: newCounters and
   newToolCallCounts are spread copies, and nothing else is written. *)
ArgumentsAfter(call, result) == call

CallEvaluateToolCall ==
    /\ evalCall.returned \in {"", "evaluateToolCall"}
    /\ evalCall.calls < MaxCalls
    /\ evalResult' = evaluateToolCall(evalCall.policy, evalCall.toolName, evalCall.actionType,
                                      evalCall.payload, evalCall.currentState,
                                      evalCall.previousToolsCalled, evalCall.counters,
                                      evalCall.toolCallCounts, evalCall.lastToolCallTimes,
                                      evalCall.timestamp)
    /\ evalCall' = [ArgumentsAfter(evalCall, evalResult') EXCEPT
                        !.returned = "evaluateToolCall", !.calls = @ + 1]
    /\ UNCHANGED <<policies, selectedPolicy, sessions, rateLimits, auditLog, workers, now,
                   lockedSpec, rateRequests, decisions, budget, policyVersions>>

CallSimulateToolCall ==
    /\ evalCall.returned \in {"", "simulateToolCall"}
    /\ evalCall.calls < MaxCalls
    /\ evalResult' = simulateToolCall(evalCall)
    /\ evalCall' = [ArgumentsAfter(evalCall, evalResult') EXCEPT
                        !.returned = "simulateToolCall", !.calls = @ + 1]
    /\ UNCHANGED <<policies, selectedPolicy, sessions, rateLimits, auditLog, workers, now,
                   lockedSpec, rateRequests, decisions, budget, policyVersions>>

NextEval ==
    \/ CallEvaluateToolCall
    \/ CallSimulateToolCall

SpecEval == InitEval /\ [][NextEval]_vars

(***************************************************************************)
(* One client that sends its requests one after the other to a session of  *)
(* the published refund policy.                                            *)
(***************************************************************************)
MaxRequestsScenario == 4

InitScenario ==
    /\ policies = [p \in PolicyIds |-> PublishedRow(NewPolicyRow(defaultPolicySpec), RefundPolicy, 1)]
    /\ selectedPolicy = [id |-> "p1", version |-> 1]
    /\ sessions = [s \in {} |-> 0]
    /\ rateLimits = EmptyMap
    /\ auditLog = <<>>
    /\ workers = [w \in Workers |-> IdleWorker]
    /\ now = 0
    /\ lockedSpec = [s \in {} |-> 0]
    /\ rateRequests = EmptyMap
    /\ decisions = <<>>
    /\ budget = [requests |-> MaxRequestsScenario, policyOps |-> 0, clock |-> 0, faults |-> 0]
    /\ policyVersions = {}
    /\ evalCall = NoCall
    /\ evalResult = NoResult

NextScenario ==
    \/ \E sid \in SessionIds, req \in Requests : RateUpsert(1, sid, req)
    \/ RateUpdate(1)
    \/ PolicyFetch(1)
    \/ SessionInsert(1)
    \/ Evaluate(1)
    \/ SessionUpdate(1)

SpecScenario == InitScenario /\ [][NextScenario]_vars

(* The same client on a policy whose verify_identity is blocked in the
   initial state and whose refund_payment requires verify_identity to have
   been called. *)
InitGated ==
    /\ policies =
          [p \in PolicyIds |->
              PublishedRow(NewPolicyRow(defaultPolicySpec),
                  [version |-> "1.0", defaultDecision |-> "deny",
                   toolRules |-> <<
                      [Rule("verify_identity", "allow") EXCEPT !.requireState = "verified"],
                      [Rule("refund_payment", "allow") EXCEPT
                          !.requirePreviousToolCalls = <<"verify_identity">>] >>,
                   stateMachine |-> StateMachine(<<"initial", "verified">>, "initial", <<>>),
                   counters |-> <<>>],
                  1)]
    /\ selectedPolicy = [id |-> "p1", version |-> 1]
    /\ sessions = [s \in {} |-> 0]
    /\ rateLimits = EmptyMap
    /\ auditLog = <<>>
    /\ workers = [w \in Workers |-> IdleWorker]
    /\ now = 0
    /\ lockedSpec = [s \in {} |-> 0]
    /\ rateRequests = EmptyMap
    /\ decisions = <<>>
    /\ budget = [requests |-> MaxRequestsScenario, policyOps |-> 0, clock |-> 0, faults |-> 0]
    /\ policyVersions = {}
    /\ evalCall = NoCall
    /\ evalResult = NoResult

SpecGated == InitGated /\ [][NextScenario]_vars

(***************************************************************************)
(* Execution replay of the dashboard: the audit entries of a session are   *)
(* evaluated again, in order, by the page's own evaluator.                 *)
(***************************************************************************)
(* evaluateToolCallLocal: checks 1 to 9 and the state-machine step; reasons
   are message strings, kept here as their number. *)
evaluateToolCallLocal(policy, toolName, actionType, payload, currentState, previousToolsCalled, counters, toolCallCounts, lastToolCallTimes, timestamp) ==
    LET ri == RuleIndex(policy, toolName)
        rule == policy.toolRules[ri]
        effectiveActionType == IF actionType # "" THEN actionType ELSE rule.actionType
        In(field) == Len(field) = 1 /\ field[1] \in DOMAIN payload.f
        failed ==
            (IF rule.requireState # "" /\ rule.requireState # currentState THEN 1 ELSE 0)
            + Len(SelectSeq(rule.requirePreviousToolCalls,
                            LAMBDA req : ~Includes(previousToolsCalled, req)))
            + (IF rule.maxCallsPerSession # NoNumber
                  /\ Get(toolCallCounts, toolName, 0) >= rule.maxCallsPerSession THEN 1 ELSE 0)
            + (IF rule.cooldownMs # NoNumber /\ toolName \in DOMAIN lastToolCallTimes
                  /\ timestamp - lastToolCallTimes[toolName] < rule.cooldownMs THEN 1 ELSE 0)
            + Len(SelectSeq(rule.requireFields, LAMBDA field : ~In(field)))
            + Len(SelectSeq(rule.denyIfFieldsPresent, LAMBDA field : In(field)))
        ti == TransitionIndex(policy, toolName, currentState)
        transition == policy.stateMachine.transitions[ti]
    IN  IF ri = 0
           THEN [allowed |-> policy.defaultDecision # "deny",
                 reasons |-> IF policy.defaultDecision = "deny" THEN 1 ELSE 0,
                 newState |-> currentState, newCounters |-> counters]
        ELSE IF rule.effect = "deny"
                \/ (effectiveActionType \in {"side_effect", "write"} /\ rule.effect # "allow")
           THEN [allowed |-> FALSE, reasons |-> 1,
                 newState |-> currentState, newCounters |-> counters]
        ELSE IF failed = 0 /\ policy.stateMachine.present /\ ti # 0
           THEN [allowed |-> TRUE, reasons |-> 1, newState |-> transition.toState,
                 newCounters |-> ApplySetsCounters(counters, transition.setsCounters)]
        ELSE [allowed |-> failed = 0, reasons |-> IF failed = 0 THEN 1 ELSE failed,
              newState |-> currentState, newCounters |-> counters]

(* runReplay: the results pushed for toolCalls, the log rows of one session
   by ascending timestamp, under policySpec. *)
runReplay(toolCalls, policySpec) ==
    LET RECURSIVE Loop(_, _)
        Loop(i, env) ==
            IF i > Len(toolCalls) THEN <<>>
            ELSE LET log == toolCalls[i]
                     result == evaluateToolCallLocal(policySpec, log.tool_name, log.action_type,
                                   log.payload_redacted, env.currentState, env.toolCallsHistory,
                                   env.counters, env.toolCallCounts, env.lastToolCallTimes,
                                   log.timestamp)
                     updated ==
                         [currentState |-> result.newState,
                          counters |-> result.newCounters,
                          toolCallCounts |-> Put(env.toolCallCounts, log.tool_name,
                                                 Get(env.toolCallCounts, log.tool_name, 0) + 1),
                          lastToolCallTimes |-> Put(env.lastToolCallTimes, log.tool_name,
                                                    log.timestamp),
                          toolCallsHistory |-> Append(env.toolCallsHistory, log.tool_name)]
                 IN  << [toolName |-> log.tool_name,
                         originalDecision |-> log.decision,
                         replayedDecision |-> IF result.allowed THEN "allowed" ELSE "blocked",
                         match |-> result.allowed = (log.decision = "allowed")] >>
                     \o Loop(i + 1, IF result.allowed THEN updated ELSE env)
    IN  Loop(1, [currentState |-> IF toolCalls[1].state_before # ""
                                     THEN toolCalls[1].state_before ELSE "initial",
                 counters |-> toolCalls[1].counters_before,
                 toolCallCounts |-> EmptyMap, lastToolCallTimes |-> EmptyMap,
                 toolCallsHistory |-> <<>>])

(***************************************************************************)
(* Redaction of payloads before logging.  A payload is a JSON value:       *)
(*   [t |-> "object", e |-> << [k |-> key, v |-> value], ... >>]           *)
(*   [t |-> "array",  e |-> << value, ... >>]                              *)
(*   [t |-> "string", e |-> text]    [t |-> "number", e |-> n]             *)
(***************************************************************************)
(* SENSITIVE_FIELDS.some(field => lowerKey.includes(field.toLowerCase())),
   over the keys of the payloads below: password and apikey are in the
   lists of all three redactors, no field is part of "details" or "note". *)
isSensitive(key) == key \in {"password", "apiKey"}

(* The marker the value patterns of the endpoint's redactor put in place of
   a string: credit card first, then SSN, then JWT; "" when none matches. *)
valuePattern(val) ==
    CASE val \in {"4111 1111 1111 1111"} -> "[REDACTED:CC]"
      [] val \in {"123-45-6789"} -> "[REDACTED:SSN]"
      [] val \in {"eyJhbGci.eyJzdWIi.c2ln"} -> "[REDACTED:JWT]"
      [] OTHER -> ""

(* redactRecursive of the decision endpoint, as the value it leaves in obj;
   an array reached as an item of an array is visited through its indices,
   none of them a sensitive name. *)
RECURSIVE redactRecursive(_)
redactRecursive(obj) ==
    LET Visit(sensitive, v) ==
            IF sensitive THEN [t |-> "string", e |-> "[REDACTED]"]
            ELSE IF v.t = "string"
               THEN IF valuePattern(v.e) # "" THEN [t |-> "string", e |-> valuePattern(v.e)] ELSE v
            ELSE IF v.t = "array"
               THEN [t |-> "array",
                     e |-> [i \in 1..Len(v.e) |->
                               IF v.e[i].t \in {"object", "array"}
                                  THEN redactRecursive(v.e[i]) ELSE v.e[i]]]
            ELSE IF v.t = "object" THEN redactRecursive(v)
            ELSE v
    IN  IF obj.t = "object"
           THEN [t |-> "object",
                 e |-> [i \in 1..Len(obj.e) |->
                           [k |-> obj.e[i].k, v |-> Visit(isSensitive(obj.e[i].k), obj.e[i].v)]]]
           ELSE [t |-> "array", e |-> [i \in 1..Len(obj.e) |-> Visit(FALSE, obj.e[i])]]

(* redactRecursive of the policy-engine library: names only, no value pattern *)
RECURSIVE libRedactRecursive(_)
libRedactRecursive(obj) ==
    LET Visit(sensitive, v) ==
            IF sensitive THEN [t |-> "string", e |-> "[REDACTED]"]
            ELSE IF v.t = "array"
               THEN [t |-> "array",
                     e |-> [i \in 1..Len(v.e) |->
                               IF v.e[i].t \in {"object", "array"}
                                  THEN libRedactRecursive(v.e[i]) ELSE v.e[i]]]
            ELSE IF v.t = "object" THEN libRedactRecursive(v)
            ELSE v
    IN  IF obj.t = "object"
           THEN [t |-> "object",
                 e |-> [i \in 1..Len(obj.e) |->
                           [k |-> obj.e[i].k, v |-> Visit(isSensitive(obj.e[i].k), obj.e[i].v)]]]
           ELSE [t |-> "array", e |-> [i \in 1..Len(obj.e) |-> Visit(FALSE, obj.e[i])]]

(* redactRecursive of the dashboard's type helpers: arrays are objects to it *)
RECURSIVE helperRedactRecursive(_)
helperRedactRecursive(obj) ==
    LET Visit(sensitive, v) ==
            IF sensitive THEN [t |-> "string", e |-> "[REDACTED]"]
            ELSE IF v.t \in {"object", "array"} THEN helperRedactRecursive(v)
            ELSE v
    IN  IF obj.t = "object"
           THEN [t |-> "object",
                 e |-> [i \in 1..Len(obj.e) |->
                           [k |-> obj.e[i].k, v |-> Visit(isSensitive(obj.e[i].k), obj.e[i].v)]]]
           ELSE [t |-> "array", e |-> [i \in 1..Len(obj.e) |-> Visit(FALSE, obj.e[i])]]

(* The payloads redacted: one entry, under a sensitive or a plain name, whose
   value is a string, a number, an object of one entry, or an array of one
   string, one object or one array. *)
RedactPayloads ==
    LET Str(x) == [t |-> "string", e |-> x]
        Obj(key, v) == [t |-> "object", e |-> << [k |-> key, v |-> v] >>]
        Arr(v) == [t |-> "array", e |-> << v >>]
        Strings == {Str(x) : x \in {"hello", "4111 1111 1111 1111", "123-45-6789",
                                     "eyJhbGci.eyJzdWIi.c2ln"}}
        Leaves == Strings \cup {[t |-> "number", e |-> 1]}
        Objects == {Obj(key, v) : key \in {"password", "note"},
                                  v \in {Str("hello"), Str("123-45-6789")}}
        Arrays == {Arr(v) : v \in {Str("hello"), Str("4111 1111 1111 1111")} \cup Objects}
        Values == Leaves \cup Objects \cup Arrays \cup {Arr(Arr(Str("123-45-6789")))}
    IN  {Obj(key, v) : key \in {"apiKey", "details"}, v \in Values}

(***************************************************************************)
(* Calls of the pure library functions: one call of one function on one    *)
(* input, the input in evalCall and the value returned in evalResult.      *)
(***************************************************************************)
(* The specs hashed: those of the editor, and two that differ from the
   refund policy in one nested field each. *)
MaxConfiguredHistory == 3

HashSpecs ==
    EditorSpecs \cup
    {[RefundPolicy EXCEPT !.toolRules[2].maxCallsPerSession = 2],
     [RefundPolicy EXCEPT !.stateMachine.transitions[2].toState = "initial"]}

InitLib ==
    /\ policies = [p \in {} |-> 0]
    /\ selectedPolicy = NoSelection
    /\ sessions = [s \in {} |-> 0]
    /\ rateLimits = EmptyMap
    /\ auditLog = <<>>
    /\ workers = [w \in Workers |-> IdleWorker]
    /\ now = 0
    /\ lockedSpec = [s \in {} |-> 0]
    /\ rateRequests = EmptyMap
    /\ decisions = <<>>
    /\ budget = [requests |-> 0, policyOps |-> 0, clock |-> 0, faults |-> 0]
    /\ policyVersions = {}
    /\ evalCall \in [function : {"computePolicyHash"}, policy : HashSpecs, keys : KeyOrders,
                      returned : {""}]
                     \cup {[function |-> "redactSensitiveFields", payload |-> payload,
                            given |-> payload, returned |-> ""] : payload \in RedactPayloads}
                     \cup UNION {{[function |-> "newHistory", maxHistoryLength |-> max,
                                   toolCallsHistory |-> history, toolName |-> toolName,
                                   returned |-> ""] :
                                     history \in UNION {[1..n -> {"verify_identity",
                                                                  "refund_payment"}] :
                                                           n \in 0..max},
                                     toolName \in {"verify_identity", "refund_payment"}} :
                                  max \in 1..MaxConfiguredHistory}
                     \cup {[function |-> "validatePolicySpec", policy |-> policy,
                            returned |-> ""] :
                              policy \in HashSpecs \cup
                                 {[RefundPolicy EXCEPT !.toolRules = << @[1] >>],
                                  [RefundPolicy EXCEPT !.stateMachine.transitions =
                                      Append(@, Transition("initial", "refund_issued",
                                                           "verify_identity"))]}}
    /\ evalResult = NoResult

(* computePolicyHash(policy) of the decision endpoint *)
CallComputePolicyHash ==
    /\ evalCall.function = "computePolicyHash"
    /\ evalCall.returned = ""
    /\ evalResult' = computePolicyHash(PolicyDocument(evalCall.policy, evalCall.keys))
    /\ evalCall' = [evalCall EXCEPT !.returned = "computePolicyHash"]
    /\ UNCHANGED <<policies, selectedPolicy, sessions, rateLimits, auditLog, workers, now,
                   lockedSpec, rateRequests, decisions, budget, policyVersions>>

(* computePolicyHash(policy) of the policy-engine library *)
CallLibComputePolicyHash ==
    /\ evalCall.function = "computePolicyHash"
    /\ evalCall.returned = ""
    /\ evalResult' = libComputePolicyHash(PolicyDocument(evalCall.policy, evalCall.keys))
    /\ evalCall' = [evalCall EXCEPT !.returned = "libComputePolicyHash"]
    /\ UNCHANGED <<policies, selectedPolicy, sessions, rateLimits, auditLog, workers, now,
                   lockedSpec, rateRequests, decisions, budget, policyVersions>>

(* redactSensitiveFields(payload) of the decision endpoint: redactRecursive
   works on JSON.parse(JSON.stringify(payload)), the payload is not reached *)
CallRedactSensitiveFields ==
    /\ evalCall.function = "redactSensitiveFields"
    /\ evalCall.returned = ""
    /\ evalResult' = redactRecursive(evalCall.payload)
    /\ evalCall' = [evalCall EXCEPT !.returned = "redactSensitiveFields"]
    /\ UNCHANGED <<policies, selectedPolicy, sessions, rateLimits, auditLog, workers, now,
                   lockedSpec, rateRequests, decisions, budget, policyVersions>>

(* redactSensitiveFields(payload) of the policy-engine library, on a deep clone too *)
CallLibRedactSensitiveFields ==
    /\ evalCall.function = "redactSensitiveFields"
    /\ evalCall.returned = ""
    /\ evalResult' = libRedactRecursive(evalCall.payload)
    /\ evalCall' = [evalCall EXCEPT !.returned = "libRedactSensitiveFields"]
    /\ UNCHANGED <<policies, selectedPolicy, sessions, rateLimits, auditLog, workers, now,
                   lockedSpec, rateRequests, decisions, budget, policyVersions>>

(* redactSensitiveFields(payload) of the dashboard's type helpers: redacted is
   { ...payload }, a new object whose values are the payload's own: what
   redactRecursive assigns to redacted[key] stays in the copy, what it
   assigns inside a nested object or array is seen through the payload. *)
CallHelperRedactSensitiveFields ==
    /\ evalCall.function = "redactSensitiveFields"
    /\ evalCall.returned = ""
    /\ evalResult' = helperRedactRecursive(evalCall.payload)
    /\ evalCall' =
          [evalCall EXCEPT
              !.returned = "helperRedactSensitiveFields",
              !.payload.e = [i \in 1..Len(@) |->
                                IF ~isSensitive(@[i].k) /\ @[i].v.t \in {"object", "array"}
                                   THEN [k |-> @[i].k, v |-> helperRedactRecursive(@[i].v)]
                                   ELSE @[i]]]
    /\ UNCHANGED <<policies, selectedPolicy, sessions, rateLimits, auditLog, workers, now,
                   lockedSpec, rateRequests, decisions, budget, policyVersions>>

(* validatePolicySpec(spec) of the policy validator: valid is errors.length === 0 *)
CallValidatePolicySpec ==
    /\ evalCall.function = "validatePolicySpec"
    /\ evalCall.returned = ""
    /\ evalResult' = [valid |-> validatePolicySpec(evalCall.policy)]
    /\ evalCall' = [evalCall EXCEPT !.returned = "validatePolicySpec"]
    /\ UNCHANGED <<policies, selectedPolicy, sessions, rateLimits, auditLog, workers, now,
                   lockedSpec, rateRequests, decisions, budget, policyVersions>>

(* const newHistory = ... of the handler, on a stored history that is within
   the configured maximum *)
CallNewHistory ==
    /\ evalCall.function = "newHistory"
    /\ evalCall.returned = ""
    /\ evalResult' = NewHistoryFor(evalCall.maxHistoryLength, evalCall.toolCallsHistory,
                                   evalCall.toolName)
    /\ evalCall' = [evalCall EXCEPT !.returned = "newHistory"]
    /\ UNCHANGED <<policies, selectedPolicy, sessions, rateLimits, auditLog, workers, now,
                   lockedSpec, rateRequests, decisions, budget, policyVersions>>

NextLib ==
    \/ CallNewHistory
    \/ CallValidatePolicySpec
    \/ CallComputePolicyHash
    \/ CallLibComputePolicyHash
    \/ CallRedactSensitiveFields
    \/ CallLibRedactSensitiveFields
    \/ CallHelperRedactSensitiveFields

SpecLib == InitLib /\ [][NextLib]_vars

(***************************************************************************)
(* The decision endpoint with the executions page beside it.               *)
(***************************************************************************)
(* loadSessionDetail and runReplay: the log rows of the session and the
   policy_spec of the row session.policy_id names; results are shown only
   when there is a policy and at least one row. *)
RunReplay ==
    /\ \E sid \in DOMAIN sessions :
          LET toolCalls == SelectSeq(auditLog, LAMBDA log : log.execution_session_id = sid)
          IN  /\ toolCalls # <<>>
              /\ sessions[sid].policyId \in DOMAIN policies
              /\ evalResult' = runReplay(toolCalls, policies[sessions[sid].policyId].policy_spec)
              /\ evalCall' = [NoCall EXCEPT !.returned = "runReplay"]
    /\ UNCHANGED <<policies, selectedPolicy, sessions, rateLimits, auditLog, workers, now,
                   lockedSpec, rateRequests, decisions, budget, policyVersions>>

NextReplay ==
    \/ Next
    \/ RunReplay

SpecReplay == Init /\ [][NextReplay]_vars

(***************************************************************************)
(* Properties.                                                             *)
(***************************************************************************)
Tools == {req.toolName : req \in Requests}

(* The part of a session row that a request may advance. *)
SessionState(row) ==
    [currentState |-> row.currentState, counters |-> row.counters,
     toolCallsHistory |-> row.toolCallsHistory, toolCallCounts |-> row.toolCallCounts,
     lastToolCallTimes |-> row.lastToolCallTimes]

(* Worker w completes its request with the session update in this step. *)
UpdateStep(w) == workers[w].pc = "session_update" /\ workers'[w].pc = "idle"

RECURSIVE CountOf(_, _)
CountOf(seq, x) ==
    IF seq = <<>> THEN 0
    ELSE (IF Head(seq) = x THEN 1 ELSE 0) + CountOf(Tail(seq), x)

(* C1: every evaluation on a session uses the policy spec that the session
   locked when it was created, whatever has been saved or published since. *)
C1_EvaluatesLockedSpec ==
    \A i \in DOMAIN decisions :
        decisions[i].sessionId \in DOMAIN lockedSpec
            => decisions[i].specUsed = lockedSpec[decisions[i].sessionId]

(* The rule of the tool in the policy limits it to one call per session. *)
LimitedToOneCall(policy, toolName) ==
    /\ RuleIndex(policy, toolName) # 0
    /\ policy.toolRules[RuleIndex(policy, toolName)].maxCallsPerSession = 1

(* C2: two requests for the same session and the same tool limited to one
   call per session, both processed on the fresh session: exactly one is
   allowed, the other is blocked with MAX_CALLS_EXCEEDED, and the final
   history holds the tool once. *)
C2_OneOfTwoAllowed ==
    (/\ AllIdle
     /\ Len(decisions) = 2
     /\ decisions[1].sessionId = decisions[2].sessionId
     /\ decisions[1].toolName = decisions[2].toolName
     /\ decisions[1].snapshot.toolCallsHistory = <<>>
     /\ decisions[2].snapshot.toolCallsHistory = <<>>
     /\ LimitedToOneCall(decisions[1].specUsed, decisions[1].toolName)
     /\ LimitedToOneCall(decisions[2].specUsed, decisions[2].toolName))
    => \E i, j \in {1, 2} :
          /\ i # j
          /\ decisions[i].allowed
          /\ ~decisions[j].allowed
          /\ decisions[j].errorCode = "MAX_CALLS_EXCEEDED"
          /\ CountOf(sessions[decisions[1].sessionId].toolCallsHistory,
                     decisions[1].toolName) = 1

(* C3: the step that completes a blocked request leaves the session's
   currentState, counters, toolCallsHistory, toolCallCounts and
   lastToolCallTimes as they were. *)
C3_BlockedDoesNotMutate ==
    [][\A w \in Workers :
          (UpdateStep(w) /\ ~workers[w].result.allowed)
              => SessionState(sessions'[workers[w].sessionId])
                     = SessionState(sessions[workers[w].sessionId])]_vars

(* One request run alone on a row: evaluation on the row, then the update. *)
RunAlone(row, d) ==
    UpdatedSessionRow(row, row,
                      evaluateToolCall(d.specUsed, d.toolName, d.actionType, d.payload,
                                       row.currentState, row.toolCallsHistory, row.counters,
                                       row.toolCallCounts, row.lastToolCallTimes, d.timestamp),
                      d.toolName, d.timestamp)

(* The row a session has when it is created. *)
CreatedRow(sid) ==
    NewSessionRow(sid, sessions[sid].policyId, sessions[sid].policyVersionLocked,
                  sessions[sid].initialState)

(* C4: when two requests on one session have both completed, the session
   row is the one that running them one after the other, in one of the two
   orders, produces. *)
C4_Serializable ==
    (/\ AllIdle
     /\ Len(decisions) = 2
     /\ decisions[1].sessionId = decisions[2].sessionId)
    => LET sid == decisions[1].sessionId
       IN  SessionState(sessions[sid]) \in
              {SessionState(RunAlone(RunAlone(CreatedRow(sid), decisions[1]), decisions[2])),
               SessionState(RunAlone(RunAlone(CreatedRow(sid), decisions[2]), decisions[1]))}

(* The evaluations made for requests of one rate-limit window. *)
EvaluatedIn(windowStart) ==
    {i \in DOMAIN decisions : WindowStart(decisions[i].timestamp) = windowStart}

(* C5: in every window at most RATE_LIMIT_REQUESTS_PER_MINUTE requests of
   the key reach policy evaluation. *)
C5_RateLimitEnforced ==
    \A windowStart \in DOMAIN rateLimits :
        Cardinality(EvaluatedIn(windowStart)) <= RATE_LIMIT_REQUESTS_PER_MINUTE

(* C6: whenever no request is between the upsert and the update, the stored
   request_count of a window in which two or more requests were processed
   is the number of those requests. *)
C6_CountsEveryRequest ==
    (\A w \in Workers : workers[w].pc # "rate_update")
    => \A windowStart \in DOMAIN rateRequests :
          rateRequests[windowStart] >= 2
              => rateLimits[windowStart] = rateRequests[windowStart]

(* C7: in every step and for every tool t, toolCallCounts[t] of a session
   does not decrease; it grows by one in the step that completes an allowed
   request for t and stays as it is in every other step. *)
C7_MonotoneCallCounts ==
    [][\A sid \in DOMAIN sessions, t \in Tools :
          LET before == Get(sessions[sid].toolCallCounts, t, 0)
              after == Get(sessions'[sid].toolCallCounts, t, 0)
              allowedCall == \E w \in Workers :
                                /\ UpdateStep(w)
                                /\ workers[w].sessionId = sid
                                /\ workers[w].toolName = t
                                /\ workers[w].result.allowed
          IN  /\ after >= before
              /\ after = (IF allowedCall THEN before + 1 ELSE before)]_vars

(* C8: every tool in a session's lastToolCallTimes has an allowed call in
   that session made at the recorded time. *)
C8_LastCallTimesOfAllowedCalls ==
    \A sid \in DOMAIN sessions :
        \A t \in DOMAIN sessions[sid].lastToolCallTimes :
            \E i \in DOMAIN decisions :
                /\ decisions[i].sessionId = sid
                /\ decisions[i].toolName = t
                /\ decisions[i].allowed
                /\ decisions[i].timestamp = sessions[sid].lastToolCallTimes[t]

(* The state set of a policy: its state machine's states, or "initial". *)
StatesOf(policy) ==
    IF policy.stateMachine.present
       THEN {policy.stateMachine.states[i] : i \in DOMAIN policy.stateMachine.states}
            \cup {policy.stateMachine.initialState}
       ELSE {"initial"}

(* C9: the currentState of every session is a state of the policy spec the
   session locked. *)
C9_StateInLockedPolicy ==
    \A sid \in DOMAIN sessions : sessions[sid].currentState \in StatesOf(lockedSpec[sid])

(* C11: in every step, a policy that is published and keeps its version
   keeps the spec stored for that (policy id, version). *)
C11_PublishedSpecImmutable ==
    [][\A pid \in DOMAIN policies :
          (policies[pid].status = "published"
           /\ policies'[pid].version = policies[pid].version)
              => policies'[pid].policy_spec = policies[pid].policy_spec]_vars

(* C12: every policy with status published holds a spec that
   validatePolicySpec reports valid. *)
C12_PublishedSpecsValid ==
    \A pid \in DOMAIN policies :
        policies[pid].status = "published" => validatePolicySpec(policies[pid].policy_spec)

(* C13: every published policy has a row in policy_versions for its
   (policy id, version) that holds the published spec (the row whose hash the
   claim compares with the hash of the spec fetched). *)
C13_PublishWritesVersionRecord ==
    \A pid \in DOMAIN policies :
        policies[pid].status = "published"
            => \E record \in policyVersions :
                  /\ record.policy_id = pid
                  /\ record.version = policies[pid].version
                  /\ record.policy_spec = policies[pid].policy_spec

(* C14: every successful publish of a policy advances the version stored
   for that policy id by exactly one, so successive publishes yield strictly
   increasing versions without gaps and never the same version twice. *)
C14_PublishAdvancesVersion ==
    [][\A spec \in EditorSpecs :
          PublishPolicy(spec)
              => policies'[selectedPolicy.id].version = policies[selectedPolicy.id].version + 1]_vars

(* C15: in every reachable state the published-policy fetch of the
   environment has at most one candidate row, so the policy and version a
   new session locks is determined. *)
C15_OneAddressablePublished == Cardinality(PublishedTop) <= 1

FailClosedCodes == {"INTERNAL_ERROR", "DATABASE_UNAVAILABLE", "SESSION_CORRUPTED"}

(* C16: every response sent with allowed = true is a 200 decision, and every
   response of a request that met a failing database call or a missing
   configuration has allowed = false and carries INTERNAL_ERROR,
   DATABASE_UNAVAILABLE or SESSION_CORRUPTED. *)
C16_FailClosed ==
    \A w \in Workers :
        LET response == workers[w].response
        IN  /\ response.allowed => response.status = 200
            /\ response.fault # "" => ~response.allowed /\ response.errorCode \in FailClosedCodes

(* C17: a request whose key is not accepted is never evaluated; it is answered
   API_KEY_REVOKED when the hash of the presented secret is that of a stored
   key with revoked_at set, and INVALID_API_KEY when it matches no stored key. *)
C17_AuthenticationCodes ==
    [][\A w \in Workers, apiKey \in Secrets :
          RejectApiKey(w, apiKey)
              => /\ UNCHANGED <<sessions, auditLog, decisions>>
                 /\ workers'[w].response.errorCode =
                        IF \E k \in ApiKeys : k.key_hash = sha256(apiKey) /\ k.revoked_at # NoNumber
                           THEN "API_KEY_REVOKED"
                           ELSE "INVALID_API_KEY"]_vars

(* C18: every blocked decision of evaluateToolCall has a non-empty reason
   chain whose first entry carries the decision's errorCode. *)
C18_FirstReasonIsErrorCode ==
    (evalCall.returned = "evaluateToolCall" /\ ~evalResult.allowed)
        => /\ evalResult.reasons # <<>>
           /\ evalResult.reasons[1] = evalResult.errorCode

(* C19: every allowed decision of evaluateToolCall has a non-empty reason
   sequence that contains ALLOWED or STATE_TRANSITION. *)
C19_AllowedHasReason ==
    (evalCall.returned = "evaluateToolCall" /\ evalResult.allowed)
        => /\ evalResult.reasons # <<>>
           /\ \E i \in DOMAIN evalResult.reasons :
                 evalResult.reasons[i] \in {"ALLOWED", "STATE_TRANSITION"}

(* C20: when no tool rule matches the tool name, either evaluator blocks with
   UNKNOWN_TOOL_DENIED under defaultDecision deny, and under defaultDecision
   allow it allows with a reason and returns the snapshot's currentState as
   newState and the snapshot's counters as newCounters. *)
C20_UnknownToolTerminal ==
    (evalCall.returned # "" /\ RuleIndex(evalCall.policy, evalCall.toolName) = 0)
        => IF evalCall.policy.defaultDecision = "deny"
              THEN ~evalResult.allowed /\ evalResult.errorCode = "UNKNOWN_TOOL_DENIED"
              ELSE /\ evalResult.allowed
                   /\ evalResult.reasons # <<>>
                   /\ evalResult.newState = evalCall.currentState
                   /\ evalResult.newCounters = evalCall.counters

(* C21: for every session and every tool whose rule in the session's policy
   has maxCallsPerSession = N, at most N calls of the tool have been allowed
   in the session. *)
C21_AtMostMaxCallsAllowed ==
    \A sid \in DOMAIN sessions, t \in Tools :
        LET policy == lockedSpec[sid]
            ri == RuleIndex(policy, t)
        IN  (ri # 0 /\ policy.toolRules[ri].maxCallsPerSession # NoNumber)
                => Cardinality({i \in DOMAIN decisions : /\ decisions[i].sessionId = sid
                                                         /\ decisions[i].toolName = t
                                                         /\ decisions[i].allowed})
                      <= policy.toolRules[ri].maxCallsPerSession

(* C22: on the refund policy, the requests refund_payment, verify_identity,
   refund_payment, refund_payment sent one after the other to a fresh session
   are decided: blocked with REQUIRED_STATE_NOT_MET (REQUIRED_TOOLS_NOT_CALLED
   among the reasons, state stays initial); allowed, initial to verified;
   allowed, verified to refund_issued; blocked with MAX_CALLS_EXCEEDED, state
   stays refund_issued. *)
C22_RefundScenario ==
    (/\ Len(auditLog) = 4
     /\ [i \in 1..4 |-> auditLog[i].tool_name]
            = <<"refund_payment", "verify_identity", "refund_payment", "refund_payment">>)
    => /\ auditLog[1].decision = "blocked"
       /\ auditLog[1].error_code = "REQUIRED_STATE_NOT_MET"
       /\ Includes(auditLog[1].decision_reasons, "REQUIRED_TOOLS_NOT_CALLED")
       /\ auditLog[1].state_before = "initial" /\ auditLog[1].state_after = "initial"
       /\ auditLog[2].decision = "allowed"
       /\ auditLog[2].state_before = "initial" /\ auditLog[2].state_after = "verified"
       /\ auditLog[3].decision = "allowed"
       /\ auditLog[3].state_before = "verified" /\ auditLog[3].state_after = "refund_issued"
       /\ auditLog[4].decision = "blocked"
       /\ auditLog[4].error_code = "MAX_CALLS_EXCEEDED"
       /\ auditLog[4].state_after = "refund_issued"

(* C23: a call of an evaluator leaves the policy, the request and the
   snapshot objects passed to it as they were, and a second call on the same
   arguments returns the output of the first: allowed, errorCode, reasons in
   order, newState, newCounters and newToolCallCounts. *)
C23_DeterministicAndPure ==
    [][evalCall'.calls = evalCall.calls + 1
          => /\ [evalCall' EXCEPT !.returned = "", !.calls = 0]
                    = [evalCall EXCEPT !.returned = "", !.calls = 0]
             /\ evalCall.calls >= 1 => evalResult' = evalResult]_vars

C23_Witness ==
    /\ evalCall.calls = 2
    /\ evalResult.allowed
    /\ evalResult.newCounters # evalCall.counters
    /\ evalResult.newToolCallCounts # evalCall.toolCallCounts

(* C24: of the requests that find no row for their session key, the one
   whose insert succeeds creates the row and goes on with it; every other
   leaves the table as it is, re-reads, and goes on with the row stored under
   the key, so all of them evaluate the one row that was created. *)
C24_GetOrCreateIdempotent ==
    [][\A w \in Workers :
          LET sid == workers[w].sessionId
          IN  /\ (workers[w].pc = "session_insert" /\ workers'[w].pc # "session_insert")
                    => IF sid \in DOMAIN sessions
                          THEN workers'[w].pc = "session_retry" /\ sessions' = sessions
                          ELSE /\ workers'[w].pc = "evaluate"
                               /\ DOMAIN sessions' = DOMAIN sessions \cup {sid}
                               /\ workers'[w].session = sessions'[sid]
              /\ (workers[w].pc = "session_retry" /\ workers'[w].pc # "session_retry")
                    => /\ workers'[w].pc = "evaluate"
                       /\ sessions' = sessions
                       /\ workers'[w].session = sessions[sid]]_vars

C24_Witness ==
    /\ Len(decisions) = 2
    /\ decisions[1].sessionId = decisions[2].sessionId
    /\ ~decisions[1].existed /\ ~decisions[2].existed
    /\ decisions[2].snapshot.toolCallsHistory # <<>>

(* C25: a request whose session is intact leaves the evaluation step with
   the decision computed and goes on to the session update, whether or not
   the audit entry was written; and the step that answers it returns that
   decision with status 200, whether the session update was written or the
   session row kept its old content. *)
C25_DecisionSurvivesWriteFailure ==
    [][\A w \in Workers :
          LET me == workers[w]
          IN  /\ (me.pc = "evaluate" /\ workers'[w].pc # "evaluate"
                  /\ me.session.currentState # "" /\ me.session.id # "")
                    => /\ workers'[w].pc = "session_update"
                       /\ workers'[w].result =
                              evaluateToolCall(me.policy, me.toolName, me.actionType, me.payload,
                                               me.session.currentState,
                                               me.session.toolCallsHistory, me.session.counters,
                                               me.session.toolCallCounts,
                                               me.session.lastToolCallTimes, me.timestamp)
              /\ (me.pc = "session_update" /\ workers'[w].pc # "session_update")
                    => /\ workers'[w].pc = "idle"
                       /\ [workers'[w].response EXCEPT !.fault = ""] = DecisionResponse(me)
                       /\ \/ sessions' = sessions
                          \/ sessions' = [sessions EXCEPT ![me.session.id] =
                                             UpdatedSessionRow(@, me.session, me.result,
                                                               me.toolName, me.timestamp)]]_vars

C25_Witness ==
    \E w \in Workers :
        /\ workers[w].response.status = 200
        /\ workers[w].response.allowed
        /\ workers[w].response.fault = "database"
        /\ Len(auditLog) = Len(decisions)
        /\ \A sid \in DOMAIN sessions : sessions[sid].toolCallsHistory = <<>>

(* C26: the policy hash of every audit entry, and of the response that
   reports the same decision, is the hash of the spec the session was locked
   to, the spec of the version the entry reports as policy_version_used,
   whatever is published when the request is served. *)
C26_HashOfLockedSpec ==
    /\ \A i \in DOMAIN auditLog :
          auditLog[i].execution_session_id \in DOMAIN lockedSpec
             => auditLog[i].policy_hash = PolicyHashOf(lockedSpec[auditLog[i].execution_session_id])
    /\ \A w \in Workers :
          workers[w].response.status = 200
             => \E sid \in DOMAIN lockedSpec :
                   workers[w].response.policyHash = PolicyHashOf(lockedSpec[sid])

(* C27: the policy hash does not depend on the order of the keys: the hash
   returned for a spec, by the endpoint's computePolicyHash and by the
   library's, is the hash of the same spec written with its keys, at every
   depth, in any other order. *)
C27_HashIgnoresKeyOrder ==
    /\ evalCall.returned = "computePolicyHash"
          => \A keys \in KeyOrders :
                evalResult = computePolicyHash(PolicyDocument(evalCall.policy, keys))
    /\ evalCall.returned = "libComputePolicyHash"
          => \A keys \in KeyOrders :
                evalResult = libComputePolicyHash(PolicyDocument(evalCall.policy, keys))

(* a hash was returned for a spec with nested objects whose keys were not
   in sorted order *)
C27_Witness ==
    /\ evalCall.returned \in {"computePolicyHash", "libComputePolicyHash"}
    /\ evalCall.keys # SortedKeys
    /\ evalCall.policy.toolRules # <<>>
    /\ evalCall.policy.stateMachine.present

(* C28: the canonical form hashed leaves out no field of the spec at any
   depth: the hash returned for a spec, by the endpoint's computePolicyHash
   as by the library's, is the hash of no spec that differs from it, be it
   only in a rule's maxCallsPerSession or in a transition's toState. *)
C28_HashCoversEveryField ==
    /\ evalCall.returned = "computePolicyHash"
          => \A other \in HashSpecs \ {evalCall.policy} :
                evalResult # computePolicyHash(PolicyDocument(other, evalCall.keys))
    /\ evalCall.returned = "libComputePolicyHash"
          => \A other \in HashSpecs \ {evalCall.policy} :
                evalResult # libComputePolicyHash(PolicyDocument(other, evalCall.keys))

(* C29: redactSensitiveFields does not change its argument: after a call of
   any of the three redactors the payload passed, nested objects and arrays
   included, is equal to what it was before the call. *)
C29_PayloadNotMutated ==
    evalCall.returned \in {"redactSensitiveFields", "libRedactSensitiveFields",
                           "helperRedactSensitiveFields"}
        => evalCall.payload = evalCall.given

(* C30: the output of the endpoint's redactor is sound for every payload: no
   entry with a sensitive name, at any depth and inside any array, has a
   value other than [REDACTED], and no string, a direct element of an array
   included, still matches the credit-card, SSN or JWT pattern. *)
C30_RedactionSound ==
    LET RECURSIVE Sound(_)
        Sound(v) ==
            CASE v.t = "object" ->
                    \A i \in 1..Len(v.e) :
                        /\ isSensitive(v.e[i].k) => v.e[i].v = [t |-> "string", e |-> "[REDACTED]"]
                        /\ Sound(v.e[i].v)
              [] v.t = "array" -> \A i \in 1..Len(v.e) : Sound(v.e[i])
              [] v.t = "string" -> valuePattern(v.e) = ""
              [] OTHER -> TRUE
    IN  evalCall.returned = "redactSensitiveFields" => Sound(evalResult)

(* C31: side effects are never auto-approved: a call that evaluateToolCall
   allows and whose effective actionType (the request's, else the rule's) is
   write or side_effect has a tool rule with effect allow in the policy; the
   defaultDecision alone never allows it. *)
C31_SideEffectsNeedAllowRule ==
    LET ri == RuleIndex(evalCall.policy, evalCall.toolName)
        effectiveActionType ==
            IF evalCall.actionType # "" \/ ri = 0
               THEN evalCall.actionType
               ELSE evalCall.policy.toolRules[ri].actionType
    IN  (evalCall.returned = "evaluateToolCall" /\ evalResult.allowed
            /\ effectiveActionType \in {"write", "side_effect"})
           => (ri # 0 /\ evalCall.policy.toolRules[ri].effect = "allow")

(* C32: execution replay reproduces the recorded decisions: for every audit
   entry of the session replayed, the decision replayed is the decision the
   endpoint recorded. *)
C32_ReplayMatches ==
    evalCall.returned = "runReplay"
        => \A i \in DOMAIN evalResult : evalResult[i].match

(* C33: validatePolicySpec rejects every spec whose state machine has a
   transition whose triggeredByTool is not the toolName of a tool rule of
   the same spec. *)
C33_UndeclaredTriggerRejected ==
    LET policy == evalCall.policy
    IN  (evalCall.returned = "validatePolicySpec"
            /\ \E i \in DOMAIN policy.stateMachine.transitions :
                   RuleIndex(policy, policy.stateMachine.transitions[i].triggeredByTool) = 0)
           => ~evalResult.valid

(* C34: for a tool whose rule sets cooldownMs and whose last call time is
   recorded, evaluateToolCall reports COOLDOWN_ACTIVE exactly when
   timestamp - lastTime < cooldownMs, with cooldownMs - (timestamp - lastTime)
   milliseconds remaining; a call at lastTime + cooldownMs or later gets no
   COOLDOWN_ACTIVE. *)
C34_CooldownWindow ==
    LET ri == RuleIndex(evalCall.policy, evalCall.toolName)
        rule == evalCall.policy.toolRules[ri]
        lastTime == evalCall.lastToolCallTimes[evalCall.toolName]
        reported == Includes(evalResult.reasons, "COOLDOWN_ACTIVE")
    IN  (evalCall.returned = "evaluateToolCall" /\ ri # 0 /\ rule.effect = "allow"
            /\ rule.cooldownMs # NoNumber /\ evalCall.toolName \in DOMAIN evalCall.lastToolCallTimes)
           => /\ reported <=> evalCall.timestamp - lastTime < rule.cooldownMs
              /\ reported => /\ ~evalResult.allowed
                              /\ evalResult.remainingMs + (evalCall.timestamp - lastTime)
                                    = rule.cooldownMs
              /\ evalCall.timestamp >= lastTime + rule.cooldownMs
                    => evalResult.remainingMs = NoNumber

(* a call exactly cooldownMs after the recorded last call, let through by
   the cooldown check *)
C34_Witness ==
    LET ri == RuleIndex(evalCall.policy, evalCall.toolName)
    IN  /\ evalCall.returned = "evaluateToolCall"
        /\ ri # 0
        /\ evalCall.policy.toolRules[ri].cooldownMs # NoNumber
        /\ evalCall.toolName \in DOMAIN evalCall.lastToolCallTimes
        /\ evalCall.timestamp
              = evalCall.lastToolCallTimes[evalCall.toolName] + evalCall.policy.toolRules[ri].cooldownMs
        /\ ~Includes(evalResult.reasons, "COOLDOWN_ACTIVE")

(* C35: for every configured maximum of at least 1, the history stored
   after a request is no longer than the maximum, and it is the most recent
   entries, in their order, of the history read followed by the tool of the
   request. *)
C35_HistoryBounded ==
    LET appended == Append(evalCall.toolCallsHistory, evalCall.toolName)
        kept == IF Len(appended) <= evalCall.maxHistoryLength
                   THEN Len(appended) ELSE evalCall.maxHistoryLength
    IN  evalCall.returned = "newHistory"
           => /\ Len(evalResult) <= evalCall.maxHistoryLength
              /\ evalResult = SubSeq(appended, Len(appended) - kept + 1, Len(appended))

(* C36: the rate-limit step is fail-closed: a request whose rate-limit
   upsert, or the count update after it, fails with a database error goes no
   further: the step ends the request with a response that has allowed=false. *)
C36_RateLimitFailClosed ==
    [][\A w \in Workers :
          (workers[w].pc \in {"idle", "rate_update"} /\ workers'[w] # workers[w]
              /\ budget'.faults < budget.faults)
             => /\ workers'[w].pc = "idle"
                /\ workers'[w].response.status # 0
                /\ ~workers'[w].response.allowed]_vars

(* C37: a call of a tool whose rule lists r in requirePreviousToolCalls is
   allowed only if an earlier call of r in the same session was allowed; a
   blocked call of r does not satisfy the requirement. *)
C37_RequiredToolWasAllowed ==
    \A i \in DOMAIN decisions :
        LET policy == decisions[i].specUsed
            ri == RuleIndex(policy, decisions[i].toolName)
        IN  (decisions[i].allowed /\ ri # 0)
               => \A k \in DOMAIN policy.toolRules[ri].requirePreviousToolCalls :
                     \E j \in 1..(i - 1) :
                         /\ decisions[j].sessionId = decisions[i].sessionId
                         /\ decisions[j].toolName = policy.toolRules[ri].requirePreviousToolCalls[k]
                         /\ decisions[j].allowed

(* C38: every blocked decision of evaluateToolCall leaves state and counters
   untouched, whichever check blocked it, the counter-ceiling check after the
   transition step included: newState is the snapshot's currentState and
   newCounters are the snapshot's counters (those the policy declares and
   the snapshot lacks at their initial value), no setsCounters delta added. *)
C38_BlockedLeavesStateAndCounters ==
    (evalCall.returned = "evaluateToolCall" /\ ~evalResult.allowed)
        => /\ evalResult.newState = evalCall.currentState
           /\ evalResult.newCounters = InitCounters(evalCall.counters, evalCall.policy.counters)

(* C39: in every session row, each counter that the session's policy
   declares with a maxValue, and an initialValue not above it, has a stored
   value of at most that maxValue. *)
C39_CountersWithinMax ==
    \A sid \in DOMAIN sessions :
        sid \in DOMAIN lockedSpec
           => \A i \in DOMAIN lockedSpec[sid].counters :
                 LET def == lockedSpec[sid].counters[i]
                 IN  (def.hasMax /\ def.initialValue <= def.maxValue
                         /\ def.name \in DOMAIN sessions[sid].counters)
                        => sessions[sid].counters[def.name] <= def.maxValue

(* C40: in every policy that validatePolicySpec reports valid, at most one
   transition matches a pair (currentState, toolName), so the transition the
   evaluator's state-machine step finds is the same when the transitions are
   listed in the reverse order. *)
C40_UniqueTransition ==
    LET policy == evalCall.policy
        ts == policy.stateMachine.transitions
        reversed == [policy EXCEPT !.stateMachine.transitions =
                        [i \in 1..Len(ts) |-> ts[Len(ts) + 1 - i]]]
    IN  (evalCall.returned = "validatePolicySpec" /\ evalResult.valid)
           => \A i \in DOMAIN ts :
                 /\ \A j \in DOMAIN ts :
                       (ts[i].fromState = ts[j].fromState
                           /\ ts[i].triggeredByTool = ts[j].triggeredByTool) => i = j
                 /\ LET found == TransitionIndex(policy, ts[i].triggeredByTool, ts[i].fromState)
                         other == TransitionIndex(reversed, ts[i].triggeredByTool, ts[i].fromState)
                     IN  ts[found] = reversed.stateMachine.transitions[other]

(* C10: no step changes the policyId, policyVersionLocked or initialState of
   an existing session, and no step removes a session. *)
C10_LockWrittenOnce ==
    [][\A sid \in DOMAIN sessions :
          /\ sid \in DOMAIN sessions'
          /\ sessions'[sid].policyId = sessions[sid].policyId
          /\ sessions'[sid].policyVersionLocked = sessions[sid].policyVersionLocked
          /\ sessions'[sid].initialState = sessions[sid].initialState]_vars

(* A session that a later request found and updated, whose policy has been
   saved or published with another spec since the session locked it. *)
C10_Witness ==
    /\ AllIdle
    /\ \E sid \in DOMAIN sessions :
          /\ \E i \in DOMAIN decisions :
                decisions[i].sessionId = sid /\ decisions[i].existed
          /\ Len(sessions[sid].toolCallsHistory) >= 2
          /\ policies[sessions[sid].policyId].policy_spec # lockedSpec[sid]
          /\ sessions[sid].policyVersionLocked = 2
          /\ sessions[sid].initialState = InitialStateOf(lockedSpec[sid])

====
